---- MODULE Spec2Model ----
(***************************************************************************)
(* Model of the learning-progress tracker (tools/progress-tracker):        *)
(* the ProgressTracker aggregate, its unit state machine, the statistics   *)
(* fold, the achievement evaluator, the recommendation engine, the         *)
(* persistence round trip and the two report renderers.                    *)
(*                                                                         *)
(* Conventions.                                                            *)
(*   Option<T>   : <<>> is None, <<x>> is Some(x).                         *)
(*   f32         : a record [inf, n, d]; a finite value is the rational    *)
(*                 n/d in lowest terms, inf = TRUE is +infinity.           *)
(*   DateTime    : a natural number, the reading of the clock `now`.       *)
(*   enum values : the variant's name as a string (its Debug rendering).   *)
(***************************************************************************)
EXTENDS Integers, Sequences, FiniteSets, TLC

VARIABLES
    learner_id,       \* ProgressTracker.learner_id
    learner_name,     \* ProgressTracker.learner_name
    learning_units,   \* ProgressTracker.learning_units : Vec<LearningUnit>
    achievements,     \* ProgressTracker.achievements   : Vec<Achievement>
    created_at,       \* ProgressTracker.created_at
    last_updated,     \* ProgressTracker.last_updated
    now,              \* the wall clock read by Utc::now()
    ops,              \* number of tracker operations performed so far
    returned,         \* Some(list) when the most recent tracker operation was
                      \* check_achievements, which returned that list; else None
    file,             \* the persisted document (None before the first to_file)
    config,           \* DashboardRenderer.config
    output            \* the report produced by the most recent render/export

vars == <<learner_id, learner_name, learning_units, achievements, created_at,
          last_updated, now, ops, returned, file, config, output>>

tracker_vars == <<learner_id, learner_name, learning_units, achievements,
                  created_at, last_updated>>

----------------------------------------------------------------------------
(* Bounds of the model *)

\* Largest clock reading.
MaxTime == 1

\* Largest number of tracker operations in one behaviour.
MaxOps == 3

\* Largest number of add_unit calls in one behaviour.
MaxAdded == 1

----------------------------------------------------------------------------
(* Option and f32 *)

None == <<>>

Some(x) == <<x>>

is_some(o) == o # <<>>

unwrap(o) == o[1]

RECURSIVE Gcd(_, _)
Gcd(a, b) == IF b = 0 THEN a ELSE Gcd(b, a % b)

\* The finite f32 value n/d (d > 0, n >= 0), in lowest terms.
Fin(n, d) ==
    LET g == Gcd(n, d) IN
    IF n = 0 THEN [inf |-> FALSE, n |-> 0, d |-> 1]
             ELSE [inf |-> FALSE, n |-> n \div g, d |-> d \div g]

PosInf == [inf |-> TRUE, n |-> 1, d |-> 1]

FAdd(a, b) ==
    IF a.inf \/ b.inf THEN PosInf ELSE Fin(a.n * b.d + b.n * a.d, a.d * b.d)

\* a / b for b finite and positive
FDiv(a, b) ==
    IF a.inf THEN PosInf ELSE Fin(a.n * b.d, a.d * b.n)

FMul(a, b) ==
    IF a.inf \/ b.inf THEN PosInf ELSE Fin(a.n * b.n, a.d * b.d)

FLe(a, b) ==
    IF b.inf THEN TRUE ELSE IF a.inf THEN FALSE ELSE a.n * b.d <= b.n * a.d

FLt(a, b) == ~FLe(b, a)

FGe(a, b) == FLe(b, a)

FGt(a, b) == ~FLe(a, b)

F(n) == Fin(n, 1)

----------------------------------------------------------------------------
(* Domain model *)

all_stages ==
    << "Stage1Basics", "Stage2Ownership", "Stage3AdvancedConcepts",
       "Stage4Ecosystem", "Stage5Projects" >>

\* LearningStage::name (the texts of the program are rendered in English)
stage_name(stage) ==
    CASE stage = "Stage1Basics"           -> "Stage 1: basics"
      [] stage = "Stage2Ownership"        -> "Stage 2: ownership"
      [] stage = "Stage3AdvancedConcepts" -> "Stage 3: advanced concepts"
      [] stage = "Stage4Ecosystem"        -> "Stage 4: ecosystem"
      [] stage = "Stage5Projects"         -> "Stage 5: projects"

UnitTypes == {"ContentReading", "CodeExample", "Exercise", "Project", "Assessment"}

\* LearningUnitType::name
unit_type_name(unit_type) ==
    CASE unit_type = "ContentReading" -> "reading"
      [] unit_type = "CodeExample"    -> "code example"
      [] unit_type = "Exercise"       -> "exercise"
      [] unit_type = "Project"        -> "project"
      [] unit_type = "Assessment"     -> "self assessment"

\* Mutant: a project weighs as much as a code example
weight_project_heavier(unit_type) ==
    CASE unit_type = "ContentReading" -> Fin(15, 100)
      [] unit_type = "CodeExample"    -> Fin(25, 100)
      [] unit_type = "Exercise"       -> Fin(30, 100)
      [] unit_type = "Project"        -> Fin(25, 100)
      [] unit_type = "Assessment"     -> Fin(10, 100)

\* LearningUnitType::weight, the decimal of the literal
weight(unit_type) ==
    CASE unit_type = "ContentReading" -> Fin(15, 100)
      [] unit_type = "CodeExample"    -> Fin(25, 100)
      [] unit_type = "Exercise"       -> Fin(30, 100)
      [] unit_type = "Project"        -> Fin(20, 100)
      [] unit_type = "Assessment"     -> Fin(10, 100)

is_completed(status) == status = "Completed"

\* LearningUnit::new
NewUnit(id, name, unit_type, stage, path, estimated_time_minutes) ==
    [ id |-> id, name |-> name, unit_type |-> unit_type, stage |-> stage,
      path |-> path, estimated_time_minutes |-> estimated_time_minutes,
      status |-> "NotStarted", started_at |-> None, completed_at |-> None,
      score |-> None, notes |-> None ]

\* LearningUnit::start
start(unit, t) ==
    [unit EXCEPT !.status = "InProgress", !.started_at = Some(t)]

\* Mutant: the score handed in is dropped, the unit keeps the score it had
complete_keeps_old_score(unit, score, t) ==
    [unit EXCEPT !.status = "Completed", !.completed_at = Some(t)]

\* LearningUnit::complete
complete(unit, score, t) ==
    [unit EXCEPT !.status = "Completed", !.completed_at = Some(t), !.score = score]

\* LearningUnit::skip
skip(unit) ==
    [unit EXCEPT !.status = "Skipped"]

\* ProgressTracker::initialize_default_units
initialize_default_units ==
    << NewUnit("stage1-environment", "environment", "ContentReading",
               "Stage1Basics", "content/stage1-basics/01-environment", 60),
       NewUnit("stage1-syntax", "syntax", "ContentReading",
               "Stage1Basics", "content/stage1-basics/02-syntax", 120),
       NewUnit("stage1-syntax-demo", "syntax-demo", "CodeExample",
               "Stage1Basics", "examples/stage1-basics/02-syntax-demo", 45) >>

CompleteUnits(count, unit_type) ==
    [kind |-> "CompleteUnits", count |-> count, unit_type |-> unit_type,
     stage |-> None, min_score |-> None, days |-> None, hours |-> None]

CompleteStage(stage) ==
    [kind |-> "CompleteStage", count |-> 0, unit_type |-> None,
     stage |-> Some(stage), min_score |-> None, days |-> None, hours |-> None]

ScoreAverage(min_score, unit_count) ==
    [kind |-> "ScoreAverage", count |-> unit_count, unit_type |-> None,
     stage |-> None, min_score |-> Some(min_score), days |-> None, hours |-> None]

StreakDays(days) ==
    [kind |-> "StreakDays", count |-> 0, unit_type |-> None,
     stage |-> None, min_score |-> None, days |-> Some(days), hours |-> None]

TotalTime(hours) ==
    [kind |-> "TotalTime", count |-> 0, unit_type |-> None,
     stage |-> None, min_score |-> None, days |-> None, hours |-> Some(hours)]

Achievement(id, name, description, icon, condition, rarity) ==
    [id |-> id, name |-> name, description |-> description, icon |-> icon,
     condition |-> condition, unlocked_at |-> None, rarity |-> rarity]

\* ProgressTracker::initialize_default_achievements
initialize_default_achievements ==
    << Achievement("first_steps", "first steps", "complete the first unit",
                   "target", CompleteUnits(1, None), "Common"),
       Achievement("stage1_master", "stage 1 master", "complete all of stage 1",
                   "star", CompleteStage("Stage1Basics"), "Rare"),
       Achievement("code_warrior", "code warrior", "complete 10 code examples",
                   "swords", CompleteUnits(10, Some("CodeExample")), "Epic"),
       Achievement("perfect_student", "perfect student", "5 exercises scored 90+",
                   "trophy", ScoreAverage(F(90), 5), "Legendary") >>

----------------------------------------------------------------------------
(* Statistics engine: ProgressTracker::get_progress_stats *)

Filter(s, Test(_)) == SelectSeq(s, Test)

\* iter().map(|u| u.unit_type.weight()).sum(), added left to right from 0.0
RECURSIVE sum_weight(_)
sum_weight(units) ==
    IF units = <<>> THEN F(0)
    ELSE FAdd(sum_weight(SubSeq(units, 1, Len(units) - 1)),
              weight(units[Len(units)].unit_type))

\* iter().map(|u| u.estimated_time_minutes).sum() over u32; the minutes of the
\* units of this model add up to far less than 2^32, so the sum never wraps
RECURSIVE sum_minutes(_)
sum_minutes(units) ==
    IF units = <<>> THEN 0
    ELSE sum_minutes(SubSeq(units, 1, Len(units) - 1))
         + units[Len(units)].estimated_time_minutes

\* iter().map(|u| u.score.unwrap()).sum()
RECURSIVE sum_score(_)
sum_score(units) ==
    IF units = <<>> THEN F(0)
    ELSE FAdd(sum_score(SubSeq(units, 1, Len(units) - 1)),
              unwrap(units[Len(units)].score))

completed_of(units) ==
    LET Test(u) == is_completed(u.status) IN Filter(units, Test)

units_of_stage(units, stage) ==
    LET Test(u) == u.stage = stage IN Filter(units, Test)

\* Mutant: the completed weight is summed over the units that are not completed
overall_progress_inverted(units) ==
    LET NotCompleted(u)  == ~is_completed(u.status)
        total_weight     == sum_weight(units)
        completed_weight == sum_weight(Filter(units, NotCompleted))
    IN  IF FGt(total_weight, F(0))
        THEN FMul(FDiv(completed_weight, total_weight), F(100))
        ELSE F(0)

\* Mutant: units are counted, not weighted by their type
overall_progress_unweighted(units) ==
    IF Len(units) > 0
    THEN FMul(FDiv(F(Len(completed_of(units))), F(Len(units))), F(100))
    ELSE F(0)

\* lib.rs 422-435
overall_progress_of(units) ==
    LET total_weight     == sum_weight(units)
        completed_weight == sum_weight(completed_of(units))
    IN  IF FGt(total_weight, F(0))
        THEN FMul(FDiv(completed_weight, total_weight), F(100))
        ELSE F(0)

\* lib.rs 446-458
average_score_of(units) ==
    LET Test(u) == is_completed(u.status) /\ is_some(u.score)
        completed_with_scores == Filter(units, Test)
    IN  IF completed_with_scores # <<>>
        THEN Some(FDiv(sum_score(completed_with_scores),
                       F(Len(completed_with_scores))))
        ELSE None

StageSet == {all_stages[i] : i \in DOMAIN all_stages}

\* Mutant: a skipped unit counts as completed in the progress of its stage
stage_progress_skipped_done(units) ==
    [ stage \in {st \in StageSet : units_of_stage(units, st) # <<>>} |->
        LET Done(u) == u.status \in {"Completed", "Skipped"}
            stage_units == units_of_stage(units, stage)
        IN  FMul(FDiv(F(Len(Filter(stage_units, Done))), F(Len(stage_units))),
                 F(100)) ]

\* lib.rs 460-474: the map holds the stages that have at least one unit
stage_progress_of(units) ==
    [ stage \in {st \in StageSet : units_of_stage(units, st) # <<>>} |->
        LET stage_units == units_of_stage(units, stage)
        IN  FMul(FDiv(F(Len(completed_of(stage_units))), F(Len(stage_units))),
                 F(100)) ]

\* Mutant: a skipped unit counts as done when the current stage is looked for
current_stage_skipped_done(units) ==
    LET Done(u) == u.status \in {"Completed", "Skipped"}
        Unfinished(stage) ==
            LET stage_units == units_of_stage(units, stage)
            IN  IF stage_units = <<>> THEN FALSE
                ELSE Len(Filter(stage_units, Done)) < Len(stage_units)
        found == {i \in DOMAIN all_stages : Unfinished(all_stages[i])}
    IN  IF found = {} THEN "Stage5Projects"
        ELSE all_stages[CHOOSE i \in found : \A j \in found : i <= j]

\* lib.rs 476-493: find() over all_stages, unwrap_or(Stage5Projects)
current_stage_of(units) ==
    LET Unfinished(stage) ==
            LET stage_units == units_of_stage(units, stage)
            IN  IF stage_units = <<>> THEN FALSE
                ELSE Len(completed_of(stage_units)) < Len(stage_units)
        found == {i \in DOMAIN all_stages : Unfinished(all_stages[i])}
    IN  IF found = {} THEN "Stage5Projects"
        ELSE all_stages[CHOOSE i \in found : \A j \in found : i <= j]

get_progress_stats(units) ==
    LET InProgress(u) == u.status = "InProgress"
        Skipped(u)    == u.status = "Skipped"
    IN  [ total_units            |-> Len(units),
          completed_units        |-> Len(completed_of(units)),
          in_progress_units      |-> Len(Filter(units, InProgress)),
          skipped_units          |-> Len(Filter(units, Skipped)),
          overall_progress       |-> overall_progress_of(units),
          total_time_minutes     |-> sum_minutes(units),
          completed_time_minutes |-> sum_minutes(completed_of(units)),
          average_score          |-> average_score_of(units),
          current_stage          |-> current_stage_of(units),
          stage_progress         |-> stage_progress_of(units) ]

\* stats.stage_progress.get(&key).copied().unwrap_or(0.0)
stage_progress_get(stats, stage) ==
    IF stage \in DOMAIN stats.stage_progress
    THEN stats.stage_progress[stage] ELSE F(0)

----------------------------------------------------------------------------
(* Recommendation engine: ProgressTracker::get_learning_path_recommendation *)

\* The comparator of candidates.sort_by (lib.rs 526-540): -1 Less, 0 Equal, 1 Greater
candidate_cmp(a, b) ==
    LET status_cmp ==
            IF a.status = "NotStarted" /\ b.status = "InProgress" THEN -1
            ELSE IF a.status = "InProgress" /\ b.status = "NotStarted" THEN 1
            ELSE 0
        wa == weight(a.unit_type)
        wb == weight(b.unit_type)
    IN  IF status_cmp # 0 THEN status_cmp
        ELSE IF FLt(wb, wa) THEN -1
        ELSE IF FGt(wb, wa) THEN 1
        ELSE 0

\* x placed after every element that does not compare Greater than it
RECURSIVE insert_sorted(_, _)
insert_sorted(sorted, x) ==
    IF sorted = <<>> THEN <<x>>
    ELSE IF candidate_cmp(sorted[Len(sorted)], x) <= 0 THEN Append(sorted, x)
    ELSE Append(insert_sorted(SubSeq(sorted, 1, Len(sorted) - 1), x),
                sorted[Len(sorted)])

\* slice::sort_by is a stable sort
RECURSIVE sort_candidates(_)
sort_candidates(s) ==
    IF s = <<>> THEN <<>>
    ELSE insert_sorted(sort_candidates(SubSeq(s, 1, Len(s) - 1)), s[Len(s)])

\* Mutant: the cap lets one unit more through
take_one_more(s, n) == SubSeq(s, 1, IF Len(s) < n + 1 THEN Len(s) ELSE n + 1)

\* Iterator::take(n): the first n elements, all of them when there are fewer
take(s, n) == SubSeq(s, 1, IF Len(s) < n THEN Len(s) ELSE n)

\* Mutant: skipped units stay among the candidates
candidates_with_skipped(units, current_stage) ==
    LET InStage(u)      == u.stage = current_stage
        NotCompleted(u) == ~is_completed(u.status)
    IN  Filter(Filter(units, InStage), NotCompleted)

\* lib.rs 515-524: the units of the current stage, not completed, not skipped
candidates_of(units, current_stage) ==
    LET InStage(u)      == u.stage = current_stage
        NotCompleted(u) == ~is_completed(u.status)
        NotSkipped(u)   == u.status # "Skipped"
        current_stage_units == Filter(Filter(units, InStage), NotCompleted)
    IN  Filter(current_stage_units, NotSkipped)

\* Mutant: the confidence is the sum of the two fractions, not their mean
recommendation_confidence_summed(stats, candidates) ==
    LET next_units == take(candidates, 5)
        estimated_time_minutes == sum_minutes(next_units)
        confidence_score ==
            IF next_units # <<>>
            THEN LET completed_ratio ==
                         FDiv(F(stats.completed_units), F(stats.total_units))
                     stage_progress ==
                         FDiv(stage_progress_get(stats, stats.current_stage), F(100))
                 IN  FAdd(completed_ratio, stage_progress)
            ELSE F(0)
        reasoning ==
            IF next_units = <<>>
            THEN "Congratulations! You have completed every unit."
            ELSE "Based on your progress, complete next "
                    \o ToString(Len(next_units)) \o " units of "
                    \o stage_name(stats.current_stage) \o ", about "
                    \o ToString(estimated_time_minutes) \o " minutes."
    IN  [ next_units             |-> next_units,
          recommended_stage      |-> stats.current_stage,
          estimated_time_minutes |-> estimated_time_minutes,
          confidence_score       |-> confidence_score,
          reasoning              |-> reasoning ]

\* lib.rs 542-577: the recommendation made from the sorted candidates
recommendation_of(stats, candidates) ==
    LET next_units == take(candidates, 5)
        estimated_time_minutes == sum_minutes(next_units)
        confidence_score ==
            IF next_units # <<>>
            THEN LET completed_ratio ==
                         FDiv(F(stats.completed_units), F(stats.total_units))
                     stage_progress ==
                         FDiv(stage_progress_get(stats, stats.current_stage), F(100))
                 IN  FDiv(FAdd(completed_ratio, stage_progress), F(2))
            ELSE F(0)
        reasoning ==
            IF next_units = <<>>
            THEN "Congratulations! You have completed every unit."
            ELSE "Based on your progress, complete next "
                    \o ToString(Len(next_units)) \o " units of "
                    \o stage_name(stats.current_stage) \o ", about "
                    \o ToString(estimated_time_minutes) \o " minutes."
    IN  [ next_units             |-> next_units,
          recommended_stage      |-> stats.current_stage,
          estimated_time_minutes |-> estimated_time_minutes,
          confidence_score       |-> confidence_score,
          reasoning              |-> reasoning ]

\* Mutant: the cap of five is applied to the candidates before they are sorted
recommendation_capped_first(units, stats) ==
    recommendation_of(stats,
                      sort_candidates(take(candidates_of(units, stats.current_stage), 5)))

\* lib.rs 513-540: the candidates of the current stage, sorted
recommendation_for(units, stats) ==
    recommendation_of(stats,
                      sort_candidates(candidates_of(units, stats.current_stage)))

get_learning_path_recommendation(units) ==
    recommendation_for(units, get_progress_stats(units))

----------------------------------------------------------------------------
(* Achievement evaluator: ProgressTracker::check_achievements *)

\* Mutant: complete-N-units asks for more than N completed units
should_unlock_strict(condition, units, stats, t) ==
    CASE condition.kind = "CompleteUnits" ->
            LET Test(u) == /\ is_completed(u.status)
                           /\ (is_some(condition.unit_type)
                                 => u.unit_type = unwrap(condition.unit_type))
            IN  Len(Filter(units, Test)) > condition.count
      [] condition.kind = "CompleteStage" ->
            FGe(stage_progress_get(stats, unwrap(condition.stage)), F(100))
      [] condition.kind = "ScoreAverage" ->
            IF is_some(stats.average_score)
            THEN LET Test(u) == is_completed(u.status) /\ is_some(u.score)
                 IN  /\ FGe(unwrap(stats.average_score), unwrap(condition.min_score))
                     /\ Len(Filter(units, Test)) >= condition.count
            ELSE FALSE
      [] condition.kind = "StreakDays" ->
            LET Test(u) == /\ is_completed(u.status)
                           /\ is_some(u.completed_at)
                           /\ t - unwrap(u.completed_at) <= unwrap(condition.days)
            IN  Len(Filter(units, Test)) >= 3
      [] condition.kind = "TotalTime" ->
            stats.completed_time_minutes \div 60 >= unwrap(condition.hours)

\* The match on achievement.condition (lib.rs 589-642); t is Utc::now(),
\* one clock unit being one day.
should_unlock(condition, units, stats, t) ==
    CASE condition.kind = "CompleteUnits" ->
            LET Test(u) == /\ is_completed(u.status)
                           /\ (is_some(condition.unit_type)
                                 => u.unit_type = unwrap(condition.unit_type))
            IN  Len(Filter(units, Test)) >= condition.count
      [] condition.kind = "CompleteStage" ->
            FGe(stage_progress_get(stats, unwrap(condition.stage)), F(100))
      [] condition.kind = "ScoreAverage" ->
            IF is_some(stats.average_score)
            THEN LET Test(u) == is_completed(u.status) /\ is_some(u.score)
                 IN  /\ FGe(unwrap(stats.average_score), unwrap(condition.min_score))
                     /\ Len(Filter(units, Test)) >= condition.count
            ELSE FALSE
      [] condition.kind = "StreakDays" ->
            LET Test(u) == /\ is_completed(u.status)
                           /\ is_some(u.completed_at)
                           /\ t - unwrap(u.completed_at) <= unwrap(condition.days)
            IN  Len(Filter(units, Test)) >= 3
      [] condition.kind = "TotalTime" ->
            stats.completed_time_minutes \div 60 >= unwrap(condition.hours)

\* The mutated guard of the loop body: an unlocked achievement is evaluated again
unlocks_again(achievement, units, stats, t) ==
    should_unlock(achievement.condition, units, stats, t)

\* lib.rs 585-587 and 644: the achievement is still locked and its condition holds
unlocks(achievement, units, stats, t) ==
    /\ ~is_some(achievement.unlocked_at)
    /\ should_unlock(achievement.condition, units, stats, t)

\* The mutated loop body: an achievement whose condition fails is locked again
check_one_relock(achievement, units, stats, t) ==
    IF unlocks(achievement, units, stats, t)
    THEN [achievement EXCEPT !.unlocked_at = Some(t)]
    ELSE IF should_unlock(achievement.condition, units, stats, t)
         THEN achievement
         ELSE [achievement EXCEPT !.unlocked_at = None]

\* One pass of the for loop body over an achievement (lib.rs 584-648)
check_one(achievement, units, stats, t) ==
    IF unlocks(achievement, units, stats, t)
    THEN [achievement EXCEPT !.unlocked_at = Some(t)]
    ELSE achievement

\* Mutant: the ids are returned newest first instead of in storage order
check_achievements_newest_first(units, achs, t) ==
    LET stats == get_progress_stats(units)
        RECURSIVE ids(_)
        ids(n) == IF n = 0 THEN <<>>
                  ELSE IF unlocks(achs[n], units, stats, t)
                       THEN <<achs[n].id>> \o ids(n - 1)
                       ELSE ids(n - 1)
    IN  [ achievements   |-> [i \in DOMAIN achs |-> check_one(achs[i], units, stats, t)],
          newly_unlocked |-> ids(Len(achs)) ]

\* The tracker's achievements after the call and the returned newly_unlocked
check_achievements(units, achs, t) ==
    LET stats == get_progress_stats(units)
        RECURSIVE ids(_)
        ids(n) == IF n = 0 THEN <<>>
                  ELSE IF unlocks(achs[n], units, stats, t)
                       THEN Append(ids(n - 1), achs[n].id)
                       ELSE ids(n - 1)
    IN  [ achievements   |-> [i \in DOMAIN achs |-> check_one(achs[i], units, stats, t)],
          newly_unlocked |-> ids(Len(achs)) ]

----------------------------------------------------------------------------
(* Suggestion engine: ProgressTracker::get_personalized_suggestions *)

\* Mutant: the hours message is pushed before the score message
suggestions_hours_first(stats) ==
    LET progress_band ==
            IF FLt(stats.overall_progress, F(20))
            THEN "Just getting started: begin with the basic syntax."
            ELSE IF FLt(stats.overall_progress, F(50))
            THEN "Good progress: go deeper into the ownership system."
            ELSE IF FLt(stats.overall_progress, F(80))
            THEN "The basics are in place: try some real projects."
            ELSE "Most of the content is done: contribute to a project."
        score_band ==
            IF is_some(stats.average_score)
            THEN IF FLt(unwrap(stats.average_score), F(70))
                 THEN <<"Review the earlier content.">>
                 ELSE IF FGe(unwrap(stats.average_score), F(90))
                 THEN <<"Excellent scores: try more advanced content.">>
                 ELSE <<>>
            ELSE <<>>
        total_hours == stats.completed_time_minutes \div 60
        hours_band ==
            IF total_hours < 10
            THEN <<"Spend more time learning.">>
            ELSE IF total_hours > 100
            THEN <<"You have invested a lot of time: keep going.">>
            ELSE <<>>
        stage_tip ==
            CASE stats.current_stage = "Stage1Basics" ->
                    "Focus on basic syntax and the development environment."
              [] stats.current_stage = "Stage2Ownership" ->
                    "Ownership is the core of Rust: practise it."
              [] stats.current_stage = "Stage3AdvancedConcepts" ->
                    "Learn to build larger programs with the advanced features."
              [] stats.current_stage = "Stage4Ecosystem" ->
                    "Get to know the ecosystem and its common libraries."
              [] stats.current_stage = "Stage5Projects" ->
                    "Apply what you learned in real projects."
    IN  <<progress_band>> \o hours_band \o score_band \o <<stage_tip>>

\* lib.rs 660-709: the messages, given the statistics
suggestions_of(stats) ==
    LET progress_band ==
            IF FLt(stats.overall_progress, F(20))
            THEN "Just getting started: begin with the basic syntax."
            ELSE IF FLt(stats.overall_progress, F(50))
            THEN "Good progress: go deeper into the ownership system."
            ELSE IF FLt(stats.overall_progress, F(80))
            THEN "The basics are in place: try some real projects."
            ELSE "Most of the content is done: contribute to a project."
        score_band ==
            IF is_some(stats.average_score)
            THEN IF FLt(unwrap(stats.average_score), F(70))
                 THEN <<"Review the earlier content.">>
                 ELSE IF FGe(unwrap(stats.average_score), F(90))
                 THEN <<"Excellent scores: try more advanced content.">>
                 ELSE <<>>
            ELSE <<>>
        total_hours == stats.completed_time_minutes \div 60
        hours_band ==
            IF total_hours < 10
            THEN <<"Spend more time learning.">>
            ELSE IF total_hours > 100
            THEN <<"You have invested a lot of time: keep going.">>
            ELSE <<>>
        stage_tip ==
            CASE stats.current_stage = "Stage1Basics" ->
                    "Focus on basic syntax and the development environment."
              [] stats.current_stage = "Stage2Ownership" ->
                    "Ownership is the core of Rust: practise it."
              [] stats.current_stage = "Stage3AdvancedConcepts" ->
                    "Learn to build larger programs with the advanced features."
              [] stats.current_stage = "Stage4Ecosystem" ->
                    "Get to know the ecosystem and its common libraries."
              [] stats.current_stage = "Stage5Projects" ->
                    "Apply what you learned in real projects."
    IN  <<progress_band>> \o score_band \o hours_band \o <<stage_tip>>

get_personalized_suggestions(units) ==
    suggestions_of(get_progress_stats(units))

----------------------------------------------------------------------------
(* Report renderers (dashboard.rs).  A report is the sequence of its lines;   *)
(* messages are rendered in English and glyphs by ASCII stand-ins.            *)

\* The tracker the renderers are handed
tracker ==
    [ learner_id     |-> learner_id,
      learner_name   |-> learner_name,
      learning_units |-> learning_units,
      achievements   |-> achievements,
      created_at     |-> created_at,
      last_updated   |-> last_updated ]

\* DashboardConfig::default (the theme only styles the markup)
default_config ==
    [ show_progress_bars   |-> TRUE,
      show_stage_breakdown |-> TRUE,
      show_achievements    |-> TRUE,
      show_recommendations |-> TRUE,
      show_suggestions     |-> TRUE,
      max_recommendations  |-> 5 ]

\* str::repeat
RECURSIVE repeat(_, _)
repeat(s, n) == IF n = 0 THEN "" ELSE s \o repeat(s, n - 1)

\* n/d rounded to the nearest integer, ties to even
round_ties_even(n, d) ==
    LET q == n \div d
        r == n % d
    IN  IF 2 * r > d \/ (2 * r = d /\ q % 2 = 1) THEN q + 1 ELSE q

\* format!("{:.0}", f)
fmt0(f) == IF f.inf THEN "inf" ELSE ToString(round_ties_even(f.n, f.d))

\* format!("{:.1}", f)
fmt1(f) ==
    IF f.inf THEN "inf"
    ELSE LET tenths == round_ties_even(f.n * 10, f.d)
         IN  ToString(tenths \div 10) \o "." \o ToString(tenths % 10)

\* f32::to_string, the value to at most four decimal places
to_string(f) ==
    IF f.inf THEN "inf"
    ELSE IF f.d = 1 THEN ToString(f.n)
    ELSE LET q == round_ties_even(f.n * 10000, f.d)
         IN  ToString(q \div 10000) \o "." \o ToString(q % 10000)

\* DashboardRenderer::format_datetime
format_datetime(dt) == "day " \o ToString(dt)

\* `f as usize` for a finite f >= 0: truncation
as_usize(f) == f.n \div f.d

\* A bar that rounds the filled cells up and saturates the empty count at zero.
create_progress_bar_rounded_up(percentage, width) ==
    LET filled_width == as_usize(FMul(FDiv(percentage, F(100)), F(width))) + 1
        empty_width  == IF filled_width > width THEN 0 ELSE width - filled_width
    IN  "[" \o repeat("#", filled_width) \o repeat(".", empty_width) \o "] "
            \o fmt1(percentage) \o "%"

\* DashboardRenderer::create_progress_bar
create_progress_bar(percentage, width) ==
    LET filled_width == as_usize(FMul(FDiv(percentage, F(100)), F(width)))
        empty_width  == width - filled_width
    IN  "[" \o repeat("#", filled_width) \o repeat(".", empty_width) \o "] "
            \o fmt1(percentage) \o "%"

rule_line == "--------------------------------------------------------------"

footer_line == "Rust learning progress tracker - learn better, see your progress!"

\* The heading line of the section a toggle shows
section_title(toggle) ==
    CASE toggle = "show_progress_bars"   -> "Overall learning progress"
      [] toggle = "show_stage_breakdown" -> "Progress by stage"
      [] toggle = "show_achievements"    -> "Achievements"
      [] toggle = "show_recommendations" -> "Learning path recommendation"
      [] toggle = "show_suggestions"     -> "Personalized learning suggestions"

\* DashboardRenderer::render_header
render_header(t) ==
    << "",
       "+------------------------------------------------------------+",
       "|              Rust learning progress tracker                |",
       "+------------------------------------------------------------+",
       "",
       "learner: " \o t.learner_name,
       "last updated: " \o format_datetime(t.last_updated) >>

\* dashboard.rs 125-142: the section's text, given the statistics
overall_progress_lines(stats) ==
    LET progress_bar == create_progress_bar(stats.overall_progress, 40)
    IN  << "",
           section_title("show_progress_bars"),
           rule_line,
           progress_bar,
           "",
           "completed: " \o ToString(stats.completed_units) \o " units    in progress: "
              \o ToString(stats.in_progress_units) \o " units    total: "
              \o ToString(stats.total_units) \o " units",
           "average score: "
              \o (IF is_some(stats.average_score)
                  THEN fmt1(unwrap(stats.average_score)) ELSE "none")
              \o "    total learning time: "
              \o ToString(stats.completed_time_minutes) \o " minutes" >>

\* DashboardRenderer::render_overall_progress
render_overall_progress(t) ==
    overall_progress_lines(get_progress_stats(t.learning_units))

\* One line per unit of render_stage_breakdown (dashboard.rs 171-182)
unit_status_line(unit) ==
    LET status_icon ==
            CASE unit.status = "NotStarted" -> "[ ]"
              [] unit.status = "InProgress" -> "[~]"
              [] unit.status = "Completed"  -> "[x]"
              [] unit.status = "Skipped"    -> "[>]"
        score_text ==
            IF is_some(unit.score) THEN " [" \o fmt0(unwrap(unit.score)) \o "]" ELSE ""
    IN  "  " \o status_icon \o " " \o unit.name \o score_text

\* The text render_stage_breakdown writes for one stage (dashboard.rs 153-185):
\* no line break follows the bar, so the first unit continues the bar's line
stage_lines(t, stats, stage) ==
    LET progress     == stage_progress_get(stats, stage)
        progress_bar == create_progress_bar(progress, 30)
        stage_units  == units_of_stage(t.learning_units, stage)
    IN  IF stage_units = <<>>
        THEN << stage_name(stage), progress_bar >>
        ELSE << stage_name(stage), progress_bar \o unit_status_line(stage_units[1]) >>
             \o [i \in 1..(Len(stage_units) - 1) |-> unit_status_line(stage_units[i + 1])]
             \o << "" >>

\* dashboard.rs 148-187: the section's text, given the statistics
stage_breakdown_lines(t, stats) ==
    LET RECURSIVE stages(_)
        stages(n) == IF n = 0 THEN <<>>
                     ELSE stages(n - 1) \o stage_lines(t, stats, all_stages[n])
    IN  << "", section_title("show_stage_breakdown"), rule_line >>
        \o stages(Len(all_stages))

\* DashboardRenderer::render_stage_breakdown
render_stage_breakdown(t) ==
    stage_breakdown_lines(t, get_progress_stats(t.learning_units))

\* DashboardRenderer::render_achievements
render_achievements(t) ==
    LET Unlocked(a) == is_some(a.unlocked_at)
        Locked(a)   == ~is_some(a.unlocked_at)
        unlocked_achievements == Filter(t.achievements, Unlocked)
        locked_achievements   == Filter(t.achievements, Locked)
        rarity_icon(a) ==
            CASE a.rarity = "Common"    -> "*"
              [] a.rarity = "Rare"      -> "+"
              [] a.rarity = "Epic"      -> "*"
              [] a.rarity = "Legendary" -> "!"
    IN  << "", section_title("show_achievements"), rule_line >>
        \o (IF unlocked_achievements # <<>>
            THEN << "", "Unlocked achievements:" >>
                 \o [i \in DOMAIN unlocked_achievements |->
                       "  " \o rarity_icon(unlocked_achievements[i]) \o " "
                            \o unlocked_achievements[i].name \o " - "
                            \o unlocked_achievements[i].description]
            ELSE <<>>)
        \o (IF locked_achievements # <<>>
            THEN << "", "Locked achievements: "
                          \o ToString(Len(locked_achievements)) >>
            ELSE <<>>)

\* dashboard.rs 234-259: the section's text, given the recommendation
recommendations_lines(recommendation) ==
        << "", section_title("show_recommendations"), rule_line >>
        \o (IF recommendation.next_units = <<>>
            THEN << "",
                    "Congratulations! You have completed every unit.",
                    "Start a real project or review earlier content." >>
            ELSE << "",
                    "tip: " \o recommendation.reasoning,
                    "estimated learning time: "
                       \o ToString(recommendation.estimated_time_minutes) \o " minutes",
                    "confidence: "
                       \o fmt0(FMul(recommendation.confidence_score, F(100))) \o "%",
                    "",
                    "Recommended units:" >>
                 \o [i \in DOMAIN recommendation.next_units |->
                       "  " \o ToString(i) \o ". " \o recommendation.next_units[i].name
                            \o " (" \o unit_type_name(recommendation.next_units[i].unit_type)
                            \o " - "
                            \o ToString(recommendation.next_units[i].estimated_time_minutes)
                            \o " minutes)"])

\* DashboardRenderer::render_recommendations
render_recommendations(t) ==
    recommendations_lines(get_learning_path_recommendation(t.learning_units))

\* dashboard.rs 265-274: the section's text, given the suggestions
suggestions_lines(suggestions) ==
    << "", section_title("show_suggestions"), rule_line >>
    \o [i \in DOMAIN suggestions |-> ToString(i) \o " " \o suggestions[i]]

\* DashboardRenderer::render_suggestions
render_suggestions(t) ==
    suggestions_lines(get_personalized_suggestions(t.learning_units))

\* DashboardRenderer::render_footer
render_footer(t) == << "", rule_line, footer_line >>

\* Mutant: the stage breakdown is shown under the overall-progress toggle
render_wrong_toggle(cfg, t) ==
    render_header(t)
    \o (IF cfg.show_progress_bars   THEN render_overall_progress(t) ELSE <<>>)
    \o (IF cfg.show_progress_bars   THEN render_stage_breakdown(t)  ELSE <<>>)
    \o (IF cfg.show_achievements    THEN render_achievements(t)     ELSE <<>>)
    \o (IF cfg.show_recommendations THEN render_recommendations(t)  ELSE <<>>)
    \o (IF cfg.show_suggestions     THEN render_suggestions(t)      ELSE <<>>)
    \o render_footer(t)

\* DashboardRenderer::render, cfg being the renderer's config
render(cfg, t) ==
    render_header(t)
    \o (IF cfg.show_progress_bars   THEN render_overall_progress(t) ELSE <<>>)
    \o (IF cfg.show_stage_breakdown THEN render_stage_breakdown(t)  ELSE <<>>)
    \o (IF cfg.show_achievements    THEN render_achievements(t)     ELSE <<>>)
    \o (IF cfg.show_recommendations THEN render_recommendations(t)  ELSE <<>>)
    \o (IF cfg.show_suggestions     THEN render_suggestions(t)      ELSE <<>>)
    \o render_footer(t)

\* The <h2> line that opens a section of the markup report
html_title(title) == "<h2>" \o title \o "</h2>"

\* dashboard.rs 308-670: the markup, given what lines 304-306 computed
\* (the style sheet is left out)
html_lines(t, stats, recommendation, suggestions) ==
    LET Unlocked(a)    == is_some(a.unlocked_at)
        unlocked_achievements == Filter(t.achievements, Unlocked)
        RECURSIVE cards(_)
        cards(n) ==
            IF n = 0 THEN <<>>
            ELSE cards(n - 1)
                 \o << "<div class=achievement-card>",
                       "<div class=achievement-title>"
                          \o unlocked_achievements[n].name \o "</div>",
                       "<div class=achievement-desc>"
                          \o unlocked_achievements[n].description \o "</div>",
                       "</div>" >>
        RECURSIVE items(_)
        items(n) ==
            IF n = 0 THEN <<>>
            ELSE items(n - 1)
                 \o << "<li class=recommendation-item>",
                       "<strong>" \o ToString(n) \o ".</strong> "
                          \o recommendation.next_units[n].name \o " ("
                          \o unit_type_name(recommendation.next_units[n].unit_type)
                          \o " - "
                          \o ToString(recommendation.next_units[n].estimated_time_minutes)
                          \o " minutes)",
                       "</li>" >>
    IN  << "<!DOCTYPE html>", "<html>", "<head>",
           "<title>Rust learning progress tracker</title>",
           "<style>", "</style>", "</head>", "<body>",
           "<div class=container>", "<div class=dashboard>",
           "<div class=header>",
           "<h1>Rust learning progress tracker</h1>",
           "<div class=learner-info>",
           "learner: " \o t.learner_name \o " | last updated: "
              \o format_datetime(t.last_updated),
           "</div>", "</div>",
           "<div class=content>",
           "<div class=section>",
           html_title("Overall learning progress"),
           "<div class=progress-fill style=width: "
              \o fmt1(stats.overall_progress) \o "%>",
           "<div class=progress-text>" \o fmt1(stats.overall_progress) \o "%</div>",
           "</div>",
           "<div class=stat-number>" \o ToString(stats.completed_units)
              \o "</div> completed units",
           "<div class=stat-number>" \o ToString(stats.in_progress_units)
              \o "</div> units in progress",
           "<div class=stat-number>" \o ToString(stats.total_units)
              \o "</div> units in total",
           "<div class=stat-number>" \o ToString(stats.completed_time_minutes)
              \o "</div> minutes of learning",
           "</div>",
           "<div class=section>",
           html_title("Unlocked achievements"),
           "<div class=achievement-grid>" >>
        \o cards(Len(unlocked_achievements))
        \o (IF unlocked_achievements = <<>>
            THEN << "<p>no unlocked achievement yet</p>" >> ELSE <<>>)
        \o << "</div>", "</div>",
              "<div class=section>",
              html_title("Learning path recommendation"),
              "<p><strong>stage:</strong> "
                 \o stage_name(recommendation.recommended_stage) \o "</p>",
              "<p><strong>estimated learning time:</strong> "
                 \o ToString(recommendation.estimated_time_minutes) \o " minutes</p>",
              "<p><strong>confidence:</strong> "
                 \o to_string(FMul(recommendation.confidence_score, F(100))) \o "%</p>",
              "<p><strong>reason:</strong> " \o recommendation.reasoning \o "</p>",
              "<ul class=recommendation-list>" >>
        \o items(Len(recommendation.next_units))
        \o (IF recommendation.next_units = <<>>
            THEN << "<p>no unit to recommend</p>" >> ELSE <<>>)
        \o << "</ul>", "</div>",
              "<div class=section>",
              html_title("Personalized learning suggestions"),
              "<ul class=suggestion-list>" >>
        \o [i \in DOMAIN suggestions |->
              "<li class=suggestion-item>" \o suggestions[i] \o "</li>"]
        \o (IF suggestions = <<>>
            THEN << "<p>no suggestion</p>" >> ELSE <<>>)
        \o << "</ul>", "</div>", "</div>",
              "<div class=footer>", footer_line, "</div>",
              "</div>", "</div>", "</body>", "</html>" >>

\* generate_html_dashboard: it is handed the tracker and no DashboardConfig
generate_html_dashboard(t) ==
    html_lines(t, get_progress_stats(t.learning_units),
               get_learning_path_recommendation(t.learning_units),
               get_personalized_suggestions(t.learning_units))

----------------------------------------------------------------------------
(* Persistence: ProgressTracker::to_file / from_file through serde_json.     *)
(* A JSON value is a tagged tuple; a JSON number carries its value as a      *)
(* rational, a JSON object is a record of JSON values.                       *)

JNull == <<"null">>

JNumber(f) == <<"number", f>>

JString(s) == <<"string", s>>

JArray(items) == <<"array", items>>

JObject(fields) == <<"object", fields>>

\* serde_json's serialize_f32: a value that is not finite is written as null
serialize_f32(f) == IF f.inf THEN JNull ELSE JNumber(f)

deserialize_f32(j) == j[2]

serialize_u32(n) == JNumber(F(n))

deserialize_u32(j) == j[2].n

\* chrono's Serialize for DateTime<Utc>: the RFC 3339 text of the instant
serialize_datetime(dt) == JString("T" \o ToString(dt))

\* chrono's Deserialize for DateTime<Utc>: the instant whose text this is
deserialize_datetime(j) ==
    CHOOSE dt \in 0..(MaxTime + 1) : serialize_datetime(dt) = j

serialize_string(s) == JString(s)

deserialize_string(j) == j[2]

\* Serialize for Option<T>: None is null, Some(x) is x
serialize_option(o, serialize(_)) ==
    IF is_some(o) THEN serialize(unwrap(o)) ELSE JNull

\* Deserialize for Option<T>: null is None, anything else is Some
deserialize_option(j, deserialize(_)) ==
    IF j = JNull THEN None ELSE Some(deserialize(j))

\* #[derive(Serialize)] for LearningUnit
serialize_unit(u) ==
    JObject([ id             |-> serialize_string(u.id),
              name           |-> serialize_string(u.name),
              unit_type      |-> serialize_string(u.unit_type),
              stage          |-> serialize_string(u.stage),
              path           |-> serialize_string(u.path),
              estimated_time_minutes |-> serialize_u32(u.estimated_time_minutes),
              status         |-> serialize_string(u.status),
              started_at     |-> serialize_option(u.started_at, serialize_datetime),
              completed_at   |-> serialize_option(u.completed_at, serialize_datetime),
              score          |-> serialize_option(u.score, serialize_f32),
              notes          |-> serialize_option(u.notes, serialize_string) ])

\* #[derive(Deserialize)] for LearningUnit
deserialize_unit(j) ==
    LET o == j[2] IN
    [ id             |-> deserialize_string(o.id),
      name           |-> deserialize_string(o.name),
      unit_type      |-> deserialize_string(o.unit_type),
      stage          |-> deserialize_string(o.stage),
      path           |-> deserialize_string(o.path),
      estimated_time_minutes |-> deserialize_u32(o.estimated_time_minutes),
      status         |-> deserialize_string(o.status),
      started_at     |-> deserialize_option(o.started_at, deserialize_datetime),
      completed_at   |-> deserialize_option(o.completed_at, deserialize_datetime),
      score          |-> deserialize_option(o.score, deserialize_f32),
      notes          |-> deserialize_option(o.notes, deserialize_string) ]

\* #[derive(Serialize)] for AchievementCondition: {"Variant": {fields}}
serialize_condition(c) ==
    CASE c.kind = "CompleteUnits" ->
            JObject([CompleteUnits |->
                JObject([ count     |-> serialize_u32(c.count),
                          unit_type |-> serialize_option(c.unit_type, serialize_string) ])])
      [] c.kind = "CompleteStage" ->
            JObject([CompleteStage |->
                JObject([ stage |-> serialize_string(unwrap(c.stage)) ])])
      [] c.kind = "ScoreAverage" ->
            JObject([ScoreAverage |->
                JObject([ min_score  |-> serialize_f32(unwrap(c.min_score)),
                          unit_count |-> serialize_u32(c.count) ])])
      [] c.kind = "StreakDays" ->
            JObject([StreakDays |->
                JObject([ days |-> serialize_u32(unwrap(c.days)) ])])
      [] c.kind = "TotalTime" ->
            JObject([TotalTime |->
                JObject([ hours |-> serialize_u32(unwrap(c.hours)) ])])

\* #[derive(Deserialize)] for AchievementCondition
deserialize_condition(j) ==
    LET o == j[2] IN
    CASE "CompleteUnits" \in DOMAIN o ->
            CompleteUnits(deserialize_u32(o.CompleteUnits[2].count),
                          deserialize_option(o.CompleteUnits[2].unit_type,
                                             deserialize_string))
      [] "CompleteStage" \in DOMAIN o ->
            CompleteStage(deserialize_string(o.CompleteStage[2].stage))
      [] "ScoreAverage" \in DOMAIN o ->
            ScoreAverage(deserialize_f32(o.ScoreAverage[2].min_score),
                         deserialize_u32(o.ScoreAverage[2].unit_count))
      [] "StreakDays" \in DOMAIN o ->
            StreakDays(deserialize_u32(o.StreakDays[2].days))
      [] "TotalTime" \in DOMAIN o ->
            TotalTime(deserialize_u32(o.TotalTime[2].hours))

\* #[derive(Serialize)] for Achievement
serialize_achievement(a) ==
    JObject([ id          |-> serialize_string(a.id),
              name        |-> serialize_string(a.name),
              description |-> serialize_string(a.description),
              icon        |-> serialize_string(a.icon),
              condition   |-> serialize_condition(a.condition),
              unlocked_at |-> serialize_option(a.unlocked_at, serialize_datetime),
              rarity      |-> serialize_string(a.rarity) ])

\* #[derive(Deserialize)] for Achievement
deserialize_achievement(j) ==
    LET o == j[2] IN
    [ id          |-> deserialize_string(o.id),
      name        |-> deserialize_string(o.name),
      description |-> deserialize_string(o.description),
      icon        |-> deserialize_string(o.icon),
      condition   |-> deserialize_condition(o.condition),
      unlocked_at |-> deserialize_option(o.unlocked_at, deserialize_datetime),
      rarity      |-> deserialize_string(o.rarity) ]

\* serde_json::to_string_pretty(self): the document of a tracker
to_json(t) ==
    JObject([ learner_id     |-> serialize_string(t.learner_id),
              learner_name   |-> serialize_string(t.learner_name),
              learning_units |->
                  JArray([i \in DOMAIN t.learning_units |->
                             serialize_unit(t.learning_units[i])]),
              achievements   |->
                  JArray([i \in DOMAIN t.achievements |->
                             serialize_achievement(t.achievements[i])]),
              created_at     |-> serialize_datetime(t.created_at),
              last_updated   |-> serialize_datetime(t.last_updated) ])

\* serde_json::from_str(&content): the tracker of a document
from_json(j) ==
    LET o == j[2] IN
    [ learner_id     |-> deserialize_string(o.learner_id),
      learner_name   |-> deserialize_string(o.learner_name),
      learning_units |->
          [i \in DOMAIN o.learning_units[2] |->
              deserialize_unit(o.learning_units[2][i])],
      achievements   |->
          [i \in DOMAIN o.achievements[2] |->
              deserialize_achievement(o.achievements[2][i])],
      created_at     |-> deserialize_datetime(o.created_at),
      last_updated   |-> deserialize_datetime(o.last_updated) ]

----------------------------------------------------------------------------
(* The tracker as a state machine *)

\* Scores handed to complete(): none or a finite score
FiniteScoreInputs == {None, Some(F(85))}

\* ... or a non-finite f32, which complete() accepts as well
ScoreInputs == FiniteScoreInputs \cup {Some(PosInf)}

\* Units handed to add_unit()
NewUnits ==
    { NewUnit("stage1-exercise", "exercise", "Exercise", "Stage1Basics",
              "exercises/stage1-basics", 30),
      NewUnit("stage2-project", "project", "Project", "Stage2Ownership",
              "examples/stage2-ownership", 600),
      NewUnit("stage1-syntax", "syntax again", "Assessment", "Stage1Basics",
              "content/stage1-basics/02-syntax", 20) }

\* The units of a tracker saved by an earlier session in which every seeded
\* unit was completed with a score of 85 (tests/integration_tests.rs 232-240)
completed_units_document ==
    [i \in DOMAIN initialize_default_units |->
        complete(initialize_default_units[i], Some(F(85)), 0)]

\* ProgressTracker::new, or ProgressTracker::from_file on that document or on a
\* document that holds no unit
Init ==
    /\ learner_id = "test-learner"
    /\ learner_name = "learner"
    /\ learning_units \in {initialize_default_units, completed_units_document, <<>>}
    /\ achievements = initialize_default_achievements
    /\ created_at = 0
    /\ last_updated = 0
    /\ now = 0
    /\ ops = 0
    /\ returned = None
    /\ file = None
    /\ config = default_config
    /\ output = None

UnitIds == {learning_units[i].id : i \in DOMAIN learning_units}

\* iter_mut().find(|u| u.id == unit_id): the first unit with that id
get_unit_mut(units, unit_id) ==
    LET found == {i \in DOMAIN units : units[i].id = unit_id}
    IN  IF found = {} THEN 0
        ELSE CHOOSE i \in found : \A j \in found : i <= j

\* the passage of time between two calls
Tick ==
    /\ now < MaxTime
    /\ now' = now + 1
    /\ UNCHANGED <<tracker_vars, ops, returned, file, config, output>>

\* tracker.add_unit(unit)
AddUnit ==
    /\ ops < MaxOps
    /\ Len(learning_units) < Len(initialize_default_units) + MaxAdded
    /\ \E unit \in NewUnits :
          learning_units' = Append(learning_units, unit)
    /\ last_updated' = now
    /\ ops' = ops + 1
    /\ returned' = None
    /\ UNCHANGED <<learner_id, learner_name, achievements, created_at, now,
                   file, config, output>>

\* tracker.get_unit_mut(id).unwrap().start()
Start ==
    /\ ops < MaxOps
    /\ \E id \in UnitIds :
          LET i == get_unit_mut(learning_units, id) IN
          learning_units' = [learning_units EXCEPT ![i] = start(@, now)]
    /\ ops' = ops + 1
    /\ returned' = None
    /\ UNCHANGED <<learner_id, learner_name, achievements, created_at,
                   last_updated, now, file, config, output>>

\* tracker.get_unit_mut(id).unwrap().complete(score)
Complete(scores) ==
    /\ ops < MaxOps
    /\ \E id \in UnitIds, score \in scores :
          LET i == get_unit_mut(learning_units, id) IN
          learning_units' = [learning_units EXCEPT ![i] = complete(@, score, now)]
    /\ ops' = ops + 1
    /\ returned' = None
    /\ UNCHANGED <<learner_id, learner_name, achievements, created_at,
                   last_updated, now, file, config, output>>

\* tracker.get_unit_mut(id).unwrap().skip()
Skip ==
    /\ ops < MaxOps
    /\ \E id \in UnitIds :
          LET i == get_unit_mut(learning_units, id) IN
          learning_units' = [learning_units EXCEPT ![i] = skip(@)]
    /\ ops' = ops + 1
    /\ returned' = None
    /\ UNCHANGED <<learner_id, learner_name, achievements, created_at,
                   last_updated, now, file, config, output>>

\* tracker.check_achievements()
CheckAchievements ==
    /\ ops < MaxOps
    /\ LET r == check_achievements(learning_units, achievements, now) IN
          /\ achievements' = r.achievements
          /\ returned' = Some(r.newly_unlocked)
          /\ last_updated' = IF r.newly_unlocked # <<>> THEN now ELSE last_updated
    /\ ops' = ops + 1
    /\ UNCHANGED <<learner_id, learner_name, learning_units, created_at, now,
                   file, config, output>>

Next ==
    \/ Tick
    \/ AddUnit
    \/ Start
    \/ Complete(FiniteScoreInputs)
    \/ Skip
    \/ CheckAchievements

Spec == Init /\ [][Next]_vars

----------------------------------------------------------------------------
(* Persistence as operations of the tracker *)

\* tracker.to_file(path)
ToFile ==
    /\ ops < MaxOps
    /\ file' = Some(to_json(tracker))
    /\ ops' = ops + 1
    /\ returned' = None
    /\ UNCHANGED <<tracker_vars, now, config, output>>

\* tracker = ProgressTracker::from_file(path)
FromFile ==
    /\ ops < MaxOps
    /\ is_some(file)
    /\ LET loaded == from_json(unwrap(file)) IN
          /\ learner_id' = loaded.learner_id
          /\ learner_name' = loaded.learner_name
          /\ learning_units' = loaded.learning_units
          /\ achievements' = loaded.achievements
          /\ created_at' = loaded.created_at
          /\ last_updated' = loaded.last_updated
    /\ ops' = ops + 1
    /\ returned' = None
    /\ UNCHANGED <<now, file, config, output>>

NextPersist ==
    \/ Tick
    \/ AddUnit
    \/ Start
    \/ Complete(ScoreInputs)
    \/ Skip
    \/ CheckAchievements
    \/ ToFile
    \/ FromFile

SpecPersist == Init /\ [][NextPersist]_vars

----------------------------------------------------------------------------
(* The command-line front end (main.rs): every command loads the stored      *)
(* document, works on the tracker in memory and may store it again           *)

\* iter().find(|u| u.id == unit_id): the first unit with that id, if any
get_unit(units, unit_id) ==
    LET found == {i \in DOMAIN units : units[i].id = unit_id}
    IN  IF found = {} THEN None
        ELSE Some(units[CHOOSE i \in found : \A j \in found : i <= j])

\* .filter(|&s| (0.0..=100.0).contains(&s)) on the parsed score
score_filter(parsed) ==
    IF is_some(parsed) /\ FLe(F(0), unwrap(parsed)) /\ FLe(unwrap(parsed), F(100))
    THEN parsed ELSE None

\* What the terminal shows of a command: its arguments and the lines it printed
cli_output(command, lines) ==
    [format |-> "cli", command |-> command, lines |-> lines]

\* The match on the choice typed at the prompt (main.rs 135-173) for the
\* choices that change the unit
apply_choice(unit, choice, score, t) ==
    CASE choice = "start"    -> start(unit, t)
      [] choice = "complete" -> complete(unit, score, t)
      [] choice = "skip"     -> skip(unit)

\* How an update command ends: the tracker in memory, the stored document,
\* what check_achievements returned if it ran, the lines printed
update_result(t, stored, checked, lines) ==
    [tracker |-> t, file |-> stored, returned |-> checked, lines |-> lines]

\* tracker.to_file(file_path) at the end of the command (main.rs 185-186)
save_progress(saved, newly_unlocked, name) ==
    update_result(saved, Some(to_json(saved)), Some(newly_unlocked),
                  <<"updating unit: " \o name, "progress saved">>)

\* The tracker after check_achievements ran on it (main.rs 176-183)
checked_tracker(loaded, units, r, t) ==
    [loaded EXCEPT
        !.learning_units = units,
        !.achievements = r.achievements,
        !.last_updated = IF r.newly_unlocked # <<>> THEN t ELSE loaded.last_updated]

\* Mutant: the tracker is stored with the changed unit before the achievements
\* are checked
update_and_save_unchecked(loaded, units, r, t, name) ==
    save_progress([loaded EXCEPT !.learning_units = units], r.newly_unlocked, name)

\* The unit was changed: achievements are checked and the tracker is stored
update_and_save(loaded, units, r, t, name) ==
    save_progress(checked_tracker(loaded, units, r, t), r.newly_unlocked, name)

\* Mutant: the tracker is stored again although the unit id was not found
update_unit_saves_unfound(loaded, stored, i, unit_id, choice, score, t) ==
    IF i = 0
    THEN update_result([loaded EXCEPT !.last_updated = t],
                       Some(to_json([loaded EXCEPT !.last_updated = t])), None,
                       <<"unit not found: " \o unit_id>>)
    ELSE IF choice \notin {"start", "complete", "skip"}
    THEN update_result(loaded, Some(stored), None,
                       <<"updating unit: " \o loaded.learning_units[i].name,
                         IF choice = "cancel" THEN "cancelled" ELSE "invalid choice">>)
    ELSE update_and_save(
             loaded,
             [loaded.learning_units EXCEPT
                 ![i] = apply_choice(loaded.learning_units[i], choice, score, t)],
             check_achievements(
                 [loaded.learning_units EXCEPT
                     ![i] = apply_choice(loaded.learning_units[i], choice, score, t)],
                 loaded.achievements, t),
             t, loaded.learning_units[i].name)

\* update_progress from get_unit_mut on (main.rs 110-187); i is the position of
\* the unit found, 0 when there is none
update_unit(loaded, stored, i, unit_id, choice, score, t) ==
    IF i = 0
    THEN update_result(loaded, Some(stored), None,
                       <<"unit not found: " \o unit_id>>)
    ELSE IF choice \notin {"start", "complete", "skip"}
    THEN update_result(loaded, Some(stored), None,
                       <<"updating unit: " \o loaded.learning_units[i].name,
                         IF choice = "cancel" THEN "cancelled" ELSE "invalid choice">>)
    ELSE update_and_save(
             loaded,
             [loaded.learning_units EXCEPT
                 ![i] = apply_choice(loaded.learning_units[i], choice, score, t)],
             check_achievements(
                 [loaded.learning_units EXCEPT
                     ![i] = apply_choice(loaded.learning_units[i], choice, score, t)],
                 loaded.achievements, t),
             t, loaded.learning_units[i].name)

\* update_progress on the tracker loaded from the progress file
update_loaded(loaded, stored, unit_id, choice, parsed, t) ==
    update_unit(loaded, stored, get_unit_mut(loaded.learning_units, unit_id),
                unit_id, choice, score_filter(parsed), t)

\* update_progress once the progress file was found (main.rs 104-187)
update_progress(stored, unit_id, choice, parsed, t) ==
    update_loaded(from_json(stored), stored, unit_id, choice, parsed, t)

\* The tracker variables take the values of the tracker a command ends with
tracker_becomes(t) ==
    /\ learner_id' = t.learner_id
    /\ learner_name' = t.learner_name
    /\ learning_units' = t.learning_units
    /\ achievements' = t.achievements
    /\ created_at' = t.created_at
    /\ last_updated' = t.last_updated

\* The effect of an update command on the state
update_done(done, unit_id, choice) ==
    /\ tracker_becomes(done.tracker)
    /\ file' = done.file
    /\ returned' = done.returned
    /\ output' = Some(cli_output(<<"update", unit_id, choice>>, done.lines))

\* Commands run in one behaviour
MaxCliOps == 2

\* Unit ids typed on the command line: seeded ones and one no unit has
CliUnitIds == {"stage1-environment", "stage1-syntax-demo", "non-existent-unit"}

\* What is typed at the prompt of the update command
CliChoices == {"start", "complete", "skip", "cancel", "other"}

\* The score typed at the prompt, parsed as f32 (None: not a number)
CliScoreInputs == {None, Some(F(85)), Some(F(150))}

\* `init <learner_name>` has run (main.rs 49-73), or no progress file exists
InitCli ==
    /\ learner_id = "test-learner"
    /\ learner_name = "learner"
    /\ learning_units = initialize_default_units
    /\ achievements = initialize_default_achievements
    /\ created_at = 0
    /\ last_updated = 0
    /\ now = 0
    /\ ops = 0
    /\ returned = None
    /\ file \in {None, Some(to_json(tracker))}
    /\ config = default_config
    /\ output = None

\* `update <unit_id> [file]`
UpdateProgress ==
    /\ ops < MaxCliOps
    /\ \E unit_id \in CliUnitIds, choice \in CliChoices :
       \E parsed \in (IF choice = "complete" THEN CliScoreInputs ELSE {None}) :
          IF ~is_some(file)
          THEN /\ output' = Some(cli_output(<<"update", unit_id, choice>>,
                                            <<"progress file not found">>))
               /\ returned' = None
               /\ UNCHANGED <<tracker_vars, file>>
          ELSE update_done(update_progress(unwrap(file), unit_id, choice, parsed, now),
                           unit_id, choice)
    /\ ops' = ops + 1
    /\ UNCHANGED <<now, config>>

NextCli ==
    \/ Tick
    \/ UpdateProgress

SpecCli == InitCli /\ [][NextCli]_vars

----------------------------------------------------------------------------
(* The report renderers over a family of trackers *)

Statuses == {"NotStarted", "InProgress", "Completed", "Skipped"}

\* A new unit brought to a status by the unit's own methods
unit_in_status(unit, status) ==
    CASE status = "NotStarted" -> unit
      [] status = "InProgress" -> start(unit, 0)
      [] status = "Completed"  -> complete(start(unit, 0), Some(F(85)), 0)
      [] status = "Skipped"    -> skip(unit)

\* The seeded units in every combination of statuses, and no unit at all
ReportUnits ==
    { [i \in DOMAIN initialize_default_units |->
          unit_in_status(initialize_default_units[i], st[i])] :
        st \in [DOMAIN initialize_default_units -> Statuses] }
    \cup { <<>> }

\* A max_recommendations below the number of units a recommendation can hold
SmallLimit == 2

\* The limits a DashboardConfig is built with: the default and a smaller one
RecommendationLimits == {default_config.max_recommendations, SmallLimit}

\* Every setting of the five section toggles of DashboardConfig, with either limit
Configs ==
    { [ show_progress_bars   |-> a,
        show_stage_breakdown |-> b,
        show_achievements    |-> c,
        show_recommendations |-> d,
        show_suggestions     |-> e,
        max_recommendations  |-> m ] :
        a \in BOOLEAN, b \in BOOLEAN, c \in BOOLEAN, d \in BOOLEAN, e \in BOOLEAN,
        m \in RecommendationLimits }

\* A tracker whose achievements were or were not evaluated, and
\* DashboardRenderer::new(config) for any config
InitReport ==
    /\ learner_id = "test-learner"
    /\ learner_name = "learner"
    /\ learning_units \in ReportUnits
    /\ achievements \in
          { initialize_default_achievements,
            check_achievements(learning_units, initialize_default_achievements,
                               0).achievements }
    /\ created_at = 0
    /\ last_updated = 0
    /\ now = 0
    /\ ops = 0
    /\ returned = None
    /\ file = None
    /\ config \in Configs
    /\ output = None

\* output = renderer.render(&tracker)
Render ==
    /\ output' = Some([format |-> "text", lines |-> render(config, tracker)])
    /\ UNCHANGED <<tracker_vars, now, ops, returned, file, config>>

\* output = generate_html_dashboard(&tracker)
ExportHtml ==
    /\ output' = Some([format |-> "html", lines |-> generate_html_dashboard(tracker)])
    /\ UNCHANGED <<tracker_vars, now, ops, returned, file, config>>

NextReport ==
    \/ Render
    \/ ExportHtml

SpecReport == InitReport /\ [][NextReport]_vars

----------------------------------------------------------------------------
(* Properties of the unit state machine and of the evaluator *)

Terminal(status) == status \in {"Completed", "Skipped"}

SeededIds == [i \in DOMAIN initialize_default_units |-> initialize_default_units[i].id]

\* The tracker holds exactly the seeded units (whatever their statuses)
OnlySeededUnits ==
    /\ Len(learning_units) = Len(SeededIds)
    /\ \A i \in DOMAIN learning_units : learning_units[i].id = SeededIds[i]

CompletedIndexes == {i \in DOMAIN learning_units : learning_units[i].status = "Completed"}

AchievementIndex(id) == CHOOSE i \in DOMAIN achievements : achievements[i].id = id

InSeq(x, seq) == \E i \in DOMAIN seq : seq[i] = x

\* C1: once a unit's status is Completed or Skipped, no later start, complete or
\* skip call changes its status (Completed and Skipped are terminal).
C1_TerminalStatusesStay ==
    [][\A i \in DOMAIN learning_units :
          Terminal(learning_units[i].status)
             => learning_units'[i].status = learning_units[i].status]_vars

\* C2: once an achievement's unlocked_at is set, every later add_unit, unit
\* start/complete/skip and check_achievements call leaves it at that same value.
C2_UnlockedAtIsKept ==
    [][\A i \in DOMAIN achievements :
          is_some(achievements[i].unlocked_at)
             => /\ i \in DOMAIN achievements'
                /\ achievements'[i].unlocked_at = achievements[i].unlocked_at]_vars

\* C2 witness: stage1_master was unlocked, a unit added to stage 1 then made its
\* condition false, and a later check_achievements call (at a later clock reading)
\* has run without returning or touching it.
C2_Witness ==
    LET a == achievements[AchievementIndex("stage1_master")] IN
    /\ is_some(a.unlocked_at)
    /\ unwrap(a.unlocked_at) < now
    /\ ~should_unlock(a.condition, learning_units,
                      get_progress_stats(learning_units), now)
    /\ Len(learning_units) > Len(SeededIds)
    /\ returned = Some(<<>>)

\* C3: when check_achievements is called twice in a row, with no unit mutation and
\* no add_unit between the two calls, the second call returns an empty list and
\* changes no achievement.
C3_SecondCheckIsEmpty ==
    [][(is_some(returned) /\ is_some(returned') /\ ops' = ops + 1)
          => (unwrap(returned') = <<>> /\ achievements' = achievements)]_vars

\* C3 witness: two operations were performed, the first a check_achievements call
\* that unlocked first_steps and the second a check_achievements call that
\* returned the empty list.
C3_Witness ==
    /\ ops = 2
    /\ returned = Some(<<>>)
    /\ is_some(achievements[AchievementIndex("first_steps")].unlocked_at)
    /\ learning_units = completed_units_document

\* C4: completing a unit whose status is not Completed never decreases
\* overall_progress.
C4_CompleteNeverDecreasesProgress ==
    [][(\E i \in DOMAIN learning_units :
           /\ Len(learning_units') = Len(learning_units)
           /\ learning_units[i].status # "Completed"
           /\ learning_units'[i].status = "Completed"
           /\ \A j \in DOMAIN learning_units \ {i} :
                  learning_units'[j] = learning_units[j])
          => FLe(get_progress_stats(learning_units).overall_progress,
                 get_progress_stats(learning_units').overall_progress)]_vars

\* C4 witness: complete() has been called on a unit that was in progress, in a
\* tracker that holds a fourth unit, and overall_progress is above zero.
C4_Witness ==
    /\ Len(learning_units) = 4
    /\ \E i \in DOMAIN learning_units :
          /\ learning_units[i].status = "Completed"
          /\ is_some(learning_units[i].started_at)
          /\ \A j \in DOMAIN learning_units \ {i} :
                 learning_units[j].status = "NotStarted"
    /\ FGt(get_progress_stats(learning_units).overall_progress, F(0))

\* The type weights in hundredths, as the documentation of the progress formula
\* gives them
WeightHundredths(unit_type) ==
    CASE unit_type = "ContentReading" -> 15
      [] unit_type = "CodeExample"    -> 25
      [] unit_type = "Exercise"       -> 30
      [] unit_type = "Project"        -> 20
      [] unit_type = "Assessment"     -> 10

\* Sum over the unit types of weight times the number of units of that type
\* among the units at the indexes `among`
RECURSIVE WeightedCount(_, _)
WeightedCount(types, among) ==
    IF types = {} THEN 0
    ELSE LET ty == CHOOSE x \in types : TRUE
         IN  WeightHundredths(ty)
               * Cardinality({i \in among : learning_units[i].unit_type = ty})
             + WeightedCount(types \ {ty}, among)

\* p is within one hundredth of c hundredths
Near(p, c) == FLt(Fin(c - 1, 100), p) /\ FLt(p, Fin(c + 1, 100))

\* C5: overall_progress is 100 times the weight of the completed units over the
\* weight of all units, 0 for a tracker without units; with the seeded units A, B
\* (reading) and C (code example) it is about 27.27 with only A completed, about
\* 54.55 with A and B completed, and 100 with all three completed.
C5_OverallProgressFormula ==
    LET p     == get_progress_stats(learning_units).overall_progress
        total == WeightedCount(UnitTypes, DOMAIN learning_units)
        done  == WeightedCount(UnitTypes, CompletedIndexes)
    IN  /\ (learning_units = <<>> => p = F(0))
        /\ (total > 0 => p = Fin(100 * done, total))
        /\ (OnlySeededUnits /\ CompletedIndexes = {1}) => Near(p, 2727)
        /\ (OnlySeededUnits /\ CompletedIndexes = {1, 2}) => Near(p, 5455)
        /\ (OnlySeededUnits /\ CompletedIndexes = {1, 2, 3}) => p = F(100)

\* C5 witness: of the three seeded units, A and B have been completed and C not.
C5_Witness ==
    /\ OnlySeededUnits
    /\ CompletedIndexes = {1, 2}
    /\ learning_units[3].status = "NotStarted"

\* C6: in a newly seeded tracker with exactly one completed unit (whichever one),
\* check_achievements returns exactly <<"first_steps">> and stamps it; once
\* first_steps is unlocked, no later check_achievements call returns it again.
C6_FirstStepsOnce ==
    LET fs == AchievementIndex("first_steps")
        r  == check_achievements(learning_units, achievements, now)
    IN  /\ (/\ OnlySeededUnits
            /\ Cardinality(CompletedIndexes) = 1
            /\ ~is_some(achievements[fs].unlocked_at))
              => /\ r.newly_unlocked = <<"first_steps">>
                 /\ r.achievements[fs].unlocked_at = Some(now)
        /\ is_some(achievements[fs].unlocked_at)
              => ~InSeq("first_steps", r.newly_unlocked)
        /\ (/\ is_some(returned)
            /\ OnlySeededUnits
            /\ Cardinality(CompletedIndexes) = 1
            /\ achievements[fs].unlocked_at = Some(now)
            /\ last_updated = now
            /\ ops = 2)
              => returned = Some(<<"first_steps">>)

\* C6 witness: one seeded unit was completed, check_achievements unlocked
\* first_steps, and then a second unit was completed.
C6_Witness ==
    /\ OnlySeededUnits
    /\ ops = 3
    /\ Cardinality(CompletedIndexes) = 2
    /\ \E i \in DOMAIN learning_units :
          learning_units[i].status = "NotStarted"
    /\ is_some(achievements[AchievementIndex("first_steps")].unlocked_at)
    /\ returned = None

\* C7: when no unit of the current stage is NotStarted or InProgress (also when
\* the tracker has no units), the recommendation has no next units, 0 estimated
\* minutes and confidence 0.0.
C7_NothingToRecommend ==
    LET stats == get_progress_stats(learning_units)
        rec   == get_learning_path_recommendation(learning_units)
    IN  (\A i \in DOMAIN learning_units :
            learning_units[i].stage = stats.current_stage
               => learning_units[i].status \notin {"NotStarted", "InProgress"})
          => /\ rec.next_units = <<>>
             /\ rec.estimated_time_minutes = 0
             /\ rec.confidence_score = F(0)

\* C7 witness: every seeded unit is Completed or Skipped, one at least is Skipped,
\* so the current stage is still stage 1 and holds no candidate.
C7_Witness ==
    /\ OnlySeededUnits
    /\ \A i \in DOMAIN learning_units : Terminal(learning_units[i].status)
    /\ \E i \in DOMAIN learning_units : learning_units[i].status = "Skipped"
    /\ get_progress_stats(learning_units).current_stage = "Stage1Basics"

----------------------------------------------------------------------------
(* Properties of the report renderers *)

Toggles ==
    { "show_progress_bars", "show_stage_breakdown", "show_achievements",
      "show_recommendations", "show_suggestions" }

\* The sections in the order render() writes them
SectionOrder ==
    << "show_progress_bars", "show_stage_breakdown", "show_achievements",
       "show_recommendations", "show_suggestions" >>

SectionTitles == {section_title(k) : k \in Toggles}

LinesOf(text) == {text[i] : i \in DOMAIN text}

\* The section headings of a text report, in the order they occur
TitlesOf(text) ==
    LET IsTitle(line) == line \in SectionTitles IN SelectSeq(text, IsTitle)

\* The headings of the sections a config shows, in section order
ExpectedTitles(cfg) ==
    LET Shown(k) == cfg[k]
        shown == SelectSeq(SectionOrder, Shown)
    IN  [i \in DOMAIN shown |-> section_title(shown[i])]

\* A section or the footer starts at line i of a text report
BlockStartsAt(text, i) ==
    /\ i >= 1
    /\ i + 2 <= Len(text)
    /\ text[i] = ""
    /\ \/ text[i + 1] \in SectionTitles /\ text[i + 2] = rule_line
       \/ text[i + 1] = rule_line /\ text[i + 2] = footer_line

\* off is on without the section headed by title: the lines from that section's
\* start up to the start of the next section (or of the footer) are gone and
\* every other line is the same, in the same place
RemovesExactly(on, off, title) ==
    LET at == {i \in DOMAIN on : on[i] = title}
    IN  /\ Cardinality(at) = 1
        /\ LET i == (CHOOSE x \in at : TRUE) - 1
               j == i + (Len(on) - Len(off)) - 1
           IN  /\ i < j
               /\ j < Len(on)
               /\ BlockStartsAt(on, i)
               /\ BlockStartsAt(on, j + 1)
               /\ \A m \in (i + 1)..j : ~BlockStartsAt(on, m)
               /\ off = SubSeq(on, 1, i - 1) \o SubSeq(on, j + 1, Len(on))
               /\ title \notin LinesOf(off)

\* C8: in the text report, for each of the five section toggles and every
\* tracker, turning that single toggle off removes exactly that section's text
\* (the section is omitted, not rendered empty) and leaves every other section,
\* the always-present header and footer, and their fixed order identical.
C8_TextToggleRemovesExactlyItsSection ==
    (is_some(output) /\ unwrap(output).format = "text") =>
        LET text   == unwrap(output).lines
            header == render_header(tracker)
            footer == render_footer(tracker)
        IN  /\ SubSeq(text, 1, Len(header)) = header
            /\ SubSeq(text, Len(text) - Len(footer) + 1, Len(text)) = footer
            /\ TitlesOf(text) = ExpectedTitles(config)
            /\ \A k \in Toggles :
                  IF config[k]
                  THEN RemovesExactly(text,
                                      render([config EXCEPT ![k] = FALSE], tracker),
                                      section_title(k))
                  ELSE RemovesExactly(render([config EXCEPT ![k] = TRUE], tracker),
                                      text, section_title(k))

\* C8 witness: a text report was rendered with only the achievements toggle off,
\* for a tracker that has an unlocked achievement and units to recommend; the
\* report holds the four other sections and no achievements heading.
C8_Witness ==
    /\ is_some(output)
    /\ unwrap(output).format = "text"
    /\ config = [default_config EXCEPT !.show_achievements = FALSE]
    /\ is_some(achievements[AchievementIndex("first_steps")].unlocked_at)
    /\ get_learning_path_recommendation(learning_units).next_units # <<>>
    /\ section_title("show_achievements") \notin LinesOf(unwrap(output).lines)
    /\ Len(TitlesOf(unwrap(output).lines)) = 4

\* The heading of the section of the markup report that a toggle names
html_section_title(toggle) ==
    CASE toggle = "show_progress_bars"   -> html_title("Overall learning progress")
      [] toggle = "show_stage_breakdown" -> html_title("Progress by stage")
      [] toggle = "show_achievements"    -> html_title("Unlocked achievements")
      [] toggle = "show_recommendations" -> html_title("Learning path recommendation")
      [] toggle = "show_suggestions"     -> html_title("Personalized learning suggestions")

\* C9: in the markup (HTML) report, for every tracker, turning a single section
\* toggle off in DashboardConfig removes that section's content from the markup
\* output: the report exported under a config whose toggle is off holds no
\* section of that toggle.
C9_MarkupToggleRemovesItsSection ==
    (is_some(output) /\ unwrap(output).format = "html") =>
        \A k \in Toggles :
            ~config[k] => html_section_title(k) \notin LinesOf(unwrap(output).lines)

----------------------------------------------------------------------------
(* Properties of persistence *)

\* C10: for every tracker state reachable by add_unit, start, complete (with or
\* without score), skip and check_achievements, saving the tracker with to_file
\* and loading it with from_file yields a tracker equal field by field to the
\* original (statuses, scores, timestamps, unlocked_at, absent or present).
C10_SaveThenLoadIsLossless ==
    from_json(to_json(tracker)) = tracker

----------------------------------------------------------------------------
(* The unit type weights as the f32 values the build computes with: an f32   *)
(* between 0 and 2 is written as the integer count of 2^-27 it amounts to,   *)
(* which is exact for every f32 from 2^-3 up                                 *)

\* 1.0f32 in units of 2^-27
F32One == 134217728

\* 2^24: an f32 carries 24 significant bits
F32Significand == 16777216

\* f32::EPSILON (2^-23) in units of 2^-27
F32Epsilon == 16

\* The spacing of the f32 values around q: the least power of two p with
\* q / p < 2^24
RECURSIVE f32_ulp(_, _)
f32_ulp(q, p) == IF q \div p < F32Significand THEN p ELSE f32_ulp(q, 2 * p)

\* num / d rounded to a multiple of p, ties to the even multiple
round_to_multiple(num, d, p) ==
    IF 2 * (num - ((num \div d) \div p) * p * d) < p * d
    THEN ((num \div d) \div p) * p
    ELSE IF 2 * (num - ((num \div d) \div p) * p * d) > p * d
    THEN ((num \div d) \div p) * p + p
    ELSE IF ((num \div d) \div p) % 2 = 0
    THEN ((num \div d) \div p) * p
    ELSE ((num \div d) \div p) * p + p

\* The f32 nearest to num / d (round to nearest, ties to even)
f32_nearest(num, d) == round_to_multiple(num, d, f32_ulp(num \div d, 1))

\* a + b on f32
f32_add(a, b) == f32_nearest(a + b, 1)

\* The f32 a decimal literal such as 0.15 denotes
f32_literal(x) == f32_nearest(x.n * F32One, x.d)

\* LearningUnitType::weight as the f32 it returns
weight_f32(unit_type) == f32_literal(weight(unit_type))

\* iter().map(|u| u.unit_type.weight()).sum() on f32: a left fold from 0.0
RECURSIVE sum_weight_f32(_)
sum_weight_f32(units) ==
    IF units = <<>> THEN 0
    ELSE f32_add(sum_weight_f32(SubSeq(units, 1, Len(units) - 1)),
                 weight_f32(units[Len(units)].unit_type))

\* The unit types in the order the enum declares them
unit_types ==
    <<"ContentReading", "CodeExample", "Exercise", "Project", "Assessment">>

\* The orders in which one unit of each type can stand in a tracker
TypeOrders ==
    {p \in [DOMAIN unit_types -> DOMAIN unit_types] :
        \A i, j \in DOMAIN unit_types : p[i] = p[j] => i = j}

\* One unit of each type, in the given order
units_of_types(order) ==
    [i \in DOMAIN unit_types |->
        NewUnit("unit-" \o ToString(order[i]), unit_type_name(unit_types[order[i]]),
                unit_types[order[i]], "Stage1Basics", "content/stage1-basics", 60)]

\* A tracker holding one unit of each type, in any order
InitWeights ==
    /\ learner_id = "test-learner"
    /\ learner_name = "learner"
    /\ \E order \in TypeOrders : learning_units = units_of_types(order)
    /\ achievements = initialize_default_achievements
    /\ created_at = 0
    /\ last_updated = 0
    /\ now = 0
    /\ ops = 0
    /\ returned = None
    /\ file = None
    /\ config = default_config
    /\ output = None

\* let total_weight: f32 = ....sum() over the units of the tracker
TotalWeight ==
    /\ output = None
    /\ output' = Some([format |-> "f32", total_weight |-> sum_weight_f32(learning_units)])
    /\ UNCHANGED <<tracker_vars, now, ops, returned, file, config>>

NextWeights == TotalWeight

SpecWeights == InitWeights /\ [][NextWeights]_vars

----------------------------------------------------------------------------
(* Statistics and recommendation of a tracker whose current stage holds      *)
(* more units than the recommendation takes                                  *)

\* The units of a progress document: six units of the first stage, of every
\* type and with two of one type, none of the second stage, one of the third
curriculum_units ==
    << NewUnit("s1-reading-a", "reading a", "ContentReading", "Stage1Basics",
               "content/stage1-basics/01", 60),
       NewUnit("s1-project", "project", "Project", "Stage1Basics",
               "examples/stage1-basics/project", 300),
       NewUnit("s1-exercise", "exercise", "Exercise", "Stage1Basics",
               "exercises/stage1-basics/01", 30),
       NewUnit("s1-reading-b", "reading b", "ContentReading", "Stage1Basics",
               "content/stage1-basics/02", 45),
       NewUnit("s1-example", "example", "CodeExample", "Stage1Basics",
               "examples/stage1-basics/01", 20),
       NewUnit("s1-assessment", "assessment", "Assessment", "Stage1Basics",
               "content/stage1-basics/assessment", 15),
       NewUnit("s3-exercise", "exercise", "Exercise", "Stage3AdvancedConcepts",
               "exercises/stage3-advanced/01", 90) >>

\* The units of the document, each brought to one of the four statuses
units_in_statuses(statuses) ==
    [i \in DOMAIN curriculum_units |->
        unit_in_status(curriculum_units[i], statuses[i])]

\* A tracker loaded from a progress document, or one without units
InitRecommend ==
    /\ learner_id = "test-learner"
    /\ learner_name = "learner"
    /\ \/ learning_units = <<>>
       \/ \E statuses \in [DOMAIN curriculum_units -> Statuses] :
             learning_units = units_in_statuses(statuses)
    /\ achievements = initialize_default_achievements
    /\ created_at = 0
    /\ last_updated = 0
    /\ now = 0
    /\ ops = 0
    /\ returned = None
    /\ file = None
    /\ config = default_config
    /\ output = None

\* What the caller of get_learning_path_recommendation holds afterwards
recommendation_output(stats, recommendation) ==
    [format |-> "recommendation", stats |-> stats, recommendation |-> recommendation]

\* tracker.get_learning_path_recommendation(), with the statistics it starts from
GetRecommendation ==
    /\ output = None
    /\ output' = Some(recommendation_output(
                          get_progress_stats(learning_units),
                          get_learning_path_recommendation(learning_units)))
    /\ UNCHANGED <<tracker_vars, now, ops, returned, file, config>>

NextRecommend == GetRecommendation

SpecRecommend == InitRecommend /\ [][NextRecommend]_vars

----------------------------------------------------------------------------
(* Properties of the command-line front end and of the unit registry        *)

Range(seq) == {seq[i] : i \in DOMAIN seq}

SeededIdSet == Range(SeededIds)

\* The ids no unit of the tracker in memory carries
AbsentIds == (CliUnitIds \cup SeededIdSet) \ UnitIds

\* The last command was an update for this unit id
UpdateCommandFor(out, unit_id) ==
    /\ is_some(out)
    /\ unwrap(out).format = "cli"
    /\ unwrap(out).command[1] = "update"
    /\ unwrap(out).command[2] = unit_id

\* C11: looking up a unit id that no unit carries yields an absent result from
\* get_unit and from get_unit_mut (and, the lookups being reads, the tracker is
\* as it was), and an update command for such an id stores nothing: the progress
\* file is the document it was and the tracker is the one that was loaded.
C11_AbsentUnitIsNoneAndNothingIsStored ==
    /\ [](\A unit_id \in AbsentIds :
             /\ get_unit(learning_units, unit_id) = None
             /\ get_unit_mut(learning_units, unit_id) = 0)
    /\ [][\A unit_id \in CliUnitIds :
             ( /\ ops' = ops + 1
               /\ is_some(file)
               /\ UpdateCommandFor(output', unit_id)
               /\ unit_id \notin
                     {u.id : u \in Range(from_json(unwrap(file)).learning_units)} )
             => /\ file' = file
                /\ tracker' = from_json(unwrap(file))
                /\ returned' = None]_vars

\* An update for an id no unit carries came after an update that was stored
C11_Witness ==
    /\ UpdateCommandFor(output, "non-existent-unit")
    /\ is_some(file)
    /\ unwrap(file) # to_json([tracker EXCEPT !.learning_units = initialize_default_units])
    /\ learning_units[1].status = "InProgress"
    /\ "non-existent-unit" \in AbsentIds
    /\ get_unit(learning_units, "non-existent-unit") = None

\* The tracker is the one ProgressTracker::new builds: seeded units, none started
NewlySeeded ==
    /\ learning_units = initialize_default_units
    /\ achievements = initialize_default_achievements

\* ProgressTracker::new, and nothing loaded from an earlier session
InitSeeded == Init /\ NewlySeeded

\* The tracker operations on a newly seeded tracker
SpecSeeded == InitSeeded /\ [][Next]_vars

\* C12: from a newly seeded tracker, after any sequence of add_unit (with any
\* unit), start, complete, skip and check_achievements, no two units of the
\* tracker's collection have the same id.
C12_UnitIdsAreUnique ==
    \A i, j \in DOMAIN learning_units :
       learning_units[i].id = learning_units[j].id => i = j

\* NotStarted and InProgress: the statuses the transitions start from
Open(status) == status \in {"NotStarted", "InProgress"}

\* Every unit LearningUnit::new is called for: the seeded ones and the added ones
CreatedUnits == Range(initialize_default_units) \cup NewUnits

\* C13: a newly created unit is NotStarted with no score and no timestamps;
\* start on a NotStarted unit makes it InProgress; complete(score) on a
\* NotStarted or InProgress unit makes it Completed and stores exactly the score
\* given (none when none is given); skip on a NotStarted or InProgress unit
\* makes it Skipped. The first conjunct states it of the methods on every unit
\* reached, the second of every step that changes such a unit.
C13_UnitTransitions ==
    /\ [](/\ \A unit \in CreatedUnits :
                /\ unit.status = "NotStarted"
                /\ unit.score = None
                /\ unit.started_at = None
                /\ unit.completed_at = None
          /\ \A unit \in Range(learning_units) :
                /\ unit.status = "NotStarted"
                      => start(unit, now).status = "InProgress"
                /\ Open(unit.status)
                      => /\ skip(unit).status = "Skipped"
                         /\ \A score \in FiniteScoreInputs :
                               /\ complete(unit, score, now).status = "Completed"
                               /\ complete(unit, score, now).score = score)
    /\ [][\A i \in DOMAIN learning_units :
             (Open(learning_units[i].status) /\ learning_units'[i] # learning_units[i])
             => \/ /\ learning_units'[i] = start(learning_units[i], now)
                   /\ learning_units'[i].status = "InProgress"
                \/ /\ learning_units'[i] = skip(learning_units[i])
                   /\ learning_units'[i].status = "Skipped"
                \/ \E score \in FiniteScoreInputs :
                      /\ learning_units'[i] = complete(learning_units[i], score, now)
                      /\ learning_units'[i].status = "Completed"
                      /\ learning_units'[i].score = score]_vars

\* One unit was started and then completed with a score of 85, another was
\* skipped
C13_Witness ==
    /\ Len(learning_units) = Len(initialize_default_units)
    /\ learning_units[1].status = "Completed"
    /\ learning_units[1].score = Some(F(85))
    /\ is_some(learning_units[1].started_at)
    /\ learning_units[2].status = "Skipped"

\* The weights as decimals, added exactly
RECURSIVE decimal_weight_sum(_)
decimal_weight_sum(types) ==
    IF types = {} THEN F(0)
    ELSE LET ty == CHOOSE x \in types : TRUE
         IN  FAdd(weight(ty), decimal_weight_sum(types \ {ty}))

\* The units stand in the order the enum declares their types
DeclaredOrder ==
    \A i \in DOMAIN learning_units : learning_units[i].unit_type = unit_types[i]

\* |a - b| on the integer counts
AbsDiff(a, b) == IF a >= b THEN a - b ELSE b - a

\* C14: each of the five unit types has a weight greater than 0, and the five
\* weights sum to 1.0: exactly as decimals; as f32 exactly 1.0 when added in the
\* declared order (the order of test_learning_unit_types) and within
\* f32::EPSILON of 1.0 when added in any other order.
C14_WeightsArePositiveAndSumToOne ==
    /\ \A ty \in UnitTypes : FGt(weight(ty), F(0)) /\ weight_f32(ty) > 0
    /\ Cardinality(UnitTypes) = Len(unit_types)
    /\ decimal_weight_sum(UnitTypes) = F(1)
    /\ is_some(output) =>
          /\ AbsDiff(unwrap(output).total_weight, F32One) <= F32Epsilon
          /\ DeclaredOrder => unwrap(output).total_weight = F32One

\* The five weights were added in the declared order
C14_Witness ==
    /\ is_some(output)
    /\ unwrap(output).format = "f32"
    /\ DeclaredOrder
    /\ Len(learning_units) = Len(unit_types)
    /\ unwrap(output).total_weight = F32One

----------------------------------------------------------------------------
(* Properties of the statistics and of the recommendation                    *)

\* The last call was get_learning_path_recommendation
Recommended == is_some(output) /\ unwrap(output).format = "recommendation"

\* The positions, in curriculum order, of the stages holding a unit that is
\* not Completed
StagesWithOpenWork ==
    {i \in DOMAIN all_stages :
        \E u \in Range(learning_units) :
           u.stage = all_stages[i] /\ u.status # "Completed"}

\* C15: current_stage of the statistics is the first stage, in curriculum order,
\* holding at least one unit whose status is not Completed; when no stage holds
\* such a unit (a tracker without units included) it is Stage5Projects.
C15_CurrentStageIsFirstUnfinished ==
    Recommended =>
       /\ all_stages[Len(all_stages)] = "Stage5Projects"
       /\ unwrap(output).stats.current_stage =
             IF StagesWithOpenWork = {} THEN "Stage5Projects"
             ELSE all_stages[CHOOSE i \in StagesWithOpenWork :
                                \A j \in StagesWithOpenWork : i <= j]

\* Every unit of the first stage is completed, the second stage has no unit,
\* the unit of the third stage is skipped: the third stage is the current one
C15_Witness ==
    /\ Recommended
    /\ learning_units # <<>>
    /\ \A u \in Range(learning_units) :
          u.stage = "Stage1Basics" => u.status = "Completed"
    /\ \E u \in Range(learning_units) :
          u.stage = "Stage3AdvancedConcepts" /\ u.status = "Skipped"
    /\ unwrap(output).stats.current_stage = "Stage3AdvancedConcepts"

\* The positions of the units the recommendation may draw from: units of the
\* current stage that are NotStarted or InProgress
OpenInCurrentStage ==
    {i \in DOMAIN learning_units :
        /\ learning_units[i].stage = unwrap(output).stats.current_stage
        /\ Open(learning_units[i].status)}

Min(a, b) == IF a <= b THEN a ELSE b

\* Sum of estimated_time_minutes over the units at the given positions of a list
RECURSIVE minutes_at(_, _)
minutes_at(units, positions) ==
    IF positions = {} THEN 0
    ELSE LET i == CHOOSE x \in positions : TRUE
         IN  units[i].estimated_time_minutes + minutes_at(units, positions \ {i})

\* C16: next_units of the recommendation holds only units of the current stage
\* whose status is NotStarted or InProgress, each at most once; its length is the
\* smaller of 5 and the number of such units; estimated_time_minutes is the sum
\* of estimated_time_minutes over exactly the units of next_units.
C16_NextUnitsAreOpenUnitsOfCurrentStage ==
    Recommended =>
       LET next_units == unwrap(output).recommendation.next_units
       IN  /\ \A k \in DOMAIN next_units :
                 \E i \in OpenInCurrentStage : next_units[k] = learning_units[i]
           /\ \A k, l \in DOMAIN next_units : next_units[k] = next_units[l] => k = l
           /\ Len(next_units) = Min(5, Cardinality(OpenInCurrentStage))
           /\ unwrap(output).recommendation.estimated_time_minutes
                 = minutes_at(next_units, DOMAIN next_units)

\* Six units of the current stage are open: five are recommended, one is not
C16_Witness ==
    /\ Recommended
    /\ Cardinality(OpenInCurrentStage) = 6
    /\ Len(unwrap(output).recommendation.next_units) = 5
    /\ \E u \in Range(learning_units) : u.status = "InProgress"
    /\ unwrap(output).recommendation.estimated_time_minutes > 0

\* The candidates of the recommendation as sort_by leaves them, before the cap
ranked_candidates ==
    sort_candidates(candidates_of(learning_units, unwrap(output).stats.current_stage))

\* a ranks strictly before b: NotStarted before InProgress, and within one
\* status the heavier unit type first
RanksBefore(a, b) ==
    \/ a.status = "NotStarted" /\ b.status = "InProgress"
    \/ a.status = b.status /\ FGt(weight(a.unit_type), weight(b.unit_type))

\* C17: the candidates are ranked before the cap of 5 is applied: the ranking
\* holds every open unit of the current stage once, every NotStarted candidate
\* precedes every InProgress one, and among candidates of one status the type
\* weights do not increase; next_units is the head of that ranking, so no
\* candidate left out of next_units ranks strictly before one included in it.
C17_RankedBeforeTheCap ==
    Recommended =>
       LET next_units == unwrap(output).recommendation.next_units
           ranked     == ranked_candidates
       IN  /\ Len(ranked) = Cardinality(OpenInCurrentStage)
           /\ \A i \in OpenInCurrentStage : InSeq(learning_units[i], ranked)
           /\ \A k, l \in DOMAIN ranked :
                 k < l =>
                    /\ ~(ranked[k].status = "InProgress" /\ ranked[l].status = "NotStarted")
                    /\ ranked[k].status = ranked[l].status
                          => FGe(weight(ranked[k].unit_type), weight(ranked[l].unit_type))
           /\ next_units = SubSeq(ranked, 1, Len(next_units))
           /\ \A i \in OpenInCurrentStage :
                 ~InSeq(learning_units[i], next_units)
                    => \A k \in DOMAIN next_units :
                          ~RanksBefore(learning_units[i], next_units[k])

\* Six candidates of both statuses: the one left out is not the last of the
\* tracker's list, and the first of the list is not the first recommended
C17_Witness ==
    /\ Recommended
    /\ Cardinality(OpenInCurrentStage) = 6
    /\ Len(unwrap(output).recommendation.next_units) = 5
    /\ InSeq(learning_units[6], unwrap(output).recommendation.next_units)
    /\ unwrap(output).recommendation.next_units[1] # learning_units[1]
    /\ \E k \in DOMAIN unwrap(output).recommendation.next_units :
          unwrap(output).recommendation.next_units[k].status = "InProgress"
    /\ unwrap(output).recommendation.next_units[1].status = "NotStarted"

\* The positions of the units of the current stage
InCurrentStage ==
    {i \in DOMAIN learning_units :
        learning_units[i].stage = unwrap(output).stats.current_stage}

\* The positions of the units at the given positions that are Completed
CompletedAmong(positions) ==
    {i \in positions : learning_units[i].status = "Completed"}

\* C18: when next_units is not empty, confidence_score is the mean of the
\* fraction of all units that are completed and the fraction of the units of the
\* current stage that are completed; when it is empty confidence_score is 0; in
\* every case 0 <= confidence_score <= 1.
C18_ConfidenceIsMeanOfTwoFractions ==
    Recommended =>
       LET confidence_score == unwrap(output).recommendation.confidence_score
       IN  /\ unwrap(output).recommendation.next_units # <<>> =>
                 confidence_score =
                    FDiv(FAdd(Fin(Cardinality(CompletedIndexes), Len(learning_units)),
                              Fin(Cardinality(CompletedAmong(InCurrentStage)),
                                  Cardinality(InCurrentStage))),
                         F(2))
           /\ unwrap(output).recommendation.next_units = <<>> =>
                 confidence_score = F(0)
           /\ ~confidence_score.inf
           /\ FLe(F(0), confidence_score)
           /\ FLe(confidence_score, F(1))

\* Three of the seven units are completed, three of the six of the current
\* stage: the confidence is (3/7 + 3/6) / 2 = 13/28
C18_Witness ==
    /\ Recommended
    /\ unwrap(output).recommendation.next_units # <<>>
    /\ Cardinality(CompletedIndexes) = 3
    /\ Cardinality(CompletedAmong(InCurrentStage)) = 3
    /\ Len(learning_units) = 7
    /\ unwrap(output).recommendation.confidence_score = Fin(13, 28)

----------------------------------------------------------------------------
(* Properties of the achievement evaluator                                   *)

\* The positions of the achievements that are locked and whose condition holds
\* for the units of the tracker at this moment
DueIndexes ==
    {i \in DOMAIN achievements :
        /\ achievements[i].unlocked_at = None
        /\ should_unlock(achievements[i].condition, learning_units,
                         get_progress_stats(learning_units), now)}

\* The k-th smallest position of a set of positions
KthOf(positions, k) ==
    CHOOSE i \in positions : Cardinality({j \in positions : j <= i}) = k

\* The step is a call of check_achievements
CheckStep == ops' = ops + 1 /\ is_some(returned')

\* C19: one check_achievements call returns exactly the ids of the achievements
\* that were locked before the call and whose condition holds for the current
\* units, in the achievements' storage order, and sets unlocked_at (to the time
\* of the call) on exactly those achievements, leaving every other as it was.
C19_CheckReturnsAndStampsExactlyTheDue ==
    [][CheckStep =>
          /\ Len(unwrap(returned')) = Cardinality(DueIndexes)
          /\ \A k \in DOMAIN unwrap(returned') :
                unwrap(returned')[k] = achievements[KthOf(DueIndexes, k)].id
          /\ DOMAIN achievements' = DOMAIN achievements
          /\ \A i \in DOMAIN achievements :
                achievements'[i] =
                   IF i \in DueIndexes
                   THEN [achievements[i] EXCEPT !.unlocked_at = Some(now)]
                   ELSE achievements[i]]_vars

\* One call unlocked first_steps and stage1_master together, and left the
\* other two achievements locked
C19_Witness ==
    /\ returned = Some(<<"first_steps", "stage1_master">>)
    /\ is_some(achievements[AchievementIndex("first_steps")].unlocked_at)
    /\ is_some(achievements[AchievementIndex("stage1_master")].unlocked_at)
    /\ Cardinality({i \in DOMAIN achievements : achievements[i].unlocked_at = None}) = 2

\* The stage holds at least one unit and every unit it holds is Completed
StageFullyCompleted(stage) ==
    /\ \E u \in Range(learning_units) : u.stage = stage
    /\ \A u \in Range(learning_units) : u.stage = stage => u.status = "Completed"

\* C20: a locked complete-stage achievement for stage S is unlocked by
\* check_achievements if and only if S holds at least one unit and every unit of
\* S is Completed: a Skipped, InProgress or NotStarted unit of S prevents the
\* unlock, and a stage without units never unlocks it. The first conjunct states
\* it of the condition for every stage, the second of every call.
C20_CompleteStageNeedsEveryUnitCompleted ==
    /\ [](\A stage \in StageSet :
             should_unlock(CompleteStage(stage), learning_units,
                           get_progress_stats(learning_units), now)
                <=> StageFullyCompleted(stage))
    /\ [][CheckStep =>
             \A i \in DOMAIN achievements :
                ( /\ achievements[i].condition.kind = "CompleteStage"
                  /\ achievements[i].unlocked_at = None )
                => ( is_some(achievements'[i].unlocked_at)
                        <=> StageFullyCompleted(unwrap(achievements[i].condition.stage)) )]_vars

\* A call unlocked stage1_master for a first stage that holds a single unit,
\* added to a tracker without units and then completed
C20_Witness ==
    /\ is_some(returned)
    /\ InSeq("stage1_master", unwrap(returned))
    /\ Len(learning_units) = 1
    /\ StageFullyCompleted("Stage1Basics")
    /\ ~StageFullyCompleted("Stage2Ownership")
    /\ is_some(achievements[AchievementIndex("stage1_master")].unlocked_at)

----------------------------------------------------------------------------
(* Properties of the stored tracker, the suggestions and the progress bars   *)

\* The conditions that depend on the units alone, not on the time of the call
UnitConditionKinds == {"CompleteUnits", "CompleteStage", "ScoreAverage", "TotalTime"}

\* The achievements of a tracker that are locked although their condition
\* holds for its units
OverdueIn(t) ==
    {i \in DOMAIN t.achievements :
        /\ t.achievements[i].unlocked_at = None
        /\ t.achievements[i].condition.kind \in UnitConditionKinds
        /\ should_unlock(t.achievements[i].condition, t.learning_units,
                         get_progress_stats(t.learning_units), now)}

\* C21: from a tracker stored by init, after any sequence of update commands
\* (start, complete with or without score, skip, cancel, invalid choice, unknown
\* unit id), the stored tracker never holds an achievement that is locked
\* although its complete-N-units, complete-stage, score-average or total-time
\* condition holds for the stored units: the evaluation runs after the unit is
\* changed and before the tracker is stored.
C21_StoredTrackerHasNoOverdueAchievement ==
    is_some(file) => OverdueIn(from_json(unwrap(file))) = {}

\* An update completed a unit and the stored tracker holds first_steps unlocked
C21_Witness ==
    /\ is_some(file)
    /\ ops > 0
    /\ \E u \in Range(from_json(unwrap(file)).learning_units) : u.status = "Completed"
    /\ \E a \in Range(from_json(unwrap(file)).achievements) :
          a.id = "first_steps" /\ is_some(a.unlocked_at)
    /\ OverdueIn(from_json(unwrap(file))) = {}

----------------------------------------------------------------------------
(* Suggestions of a tracker whose completed time crosses the hour bands      *)

\* The units of a progress document whose estimated times add up to 600
\* minutes over the first stage, 6030 over the first two stages and 6060
\* over all of them
timed_units ==
    << NewUnit("s1-reading", "reading", "ContentReading", "Stage1Basics",
               "content/stage1-basics/01", 599),
       NewUnit("s1-exercise", "exercise", "Exercise", "Stage1Basics",
               "exercises/stage1-basics/01", 1),
       NewUnit("s2-project", "project", "Project", "Stage2Ownership",
               "examples/stage2-ownership/project", 5430),
       NewUnit("s3-example", "example", "CodeExample", "Stage3AdvancedConcepts",
               "examples/stage3-advanced/01", 30) >>

\* What a unit of the document has been through: a status and, when it was
\* completed, the score handed to complete()
UnitHistories ==
    {[status |-> st, score |-> None] : st \in Statuses}
       \cup {[status |-> "Completed", score |-> Some(F(sc))] : sc \in {60, 85, 95}}

\* A new unit brought to a status, completed with the given score
unit_after(unit, history) ==
    CASE history.status = "NotStarted" -> unit
      [] history.status = "InProgress" -> start(unit, 0)
      [] history.status = "Completed"  -> complete(start(unit, 0), history.score, 0)
      [] history.status = "Skipped"    -> skip(unit)

\* The units of the document, each with its history
units_after(histories) ==
    [i \in DOMAIN timed_units |-> unit_after(timed_units[i], histories[i])]

\* A tracker loaded from a progress document, or one without units
InitSuggest ==
    /\ learner_id = "test-learner"
    /\ learner_name = "learner"
    /\ \/ learning_units = <<>>
       \/ \E histories \in [DOMAIN timed_units -> UnitHistories] :
             learning_units = units_after(histories)
    /\ achievements = initialize_default_achievements
    /\ created_at = 0
    /\ last_updated = 0
    /\ now = 0
    /\ ops = 0
    /\ returned = None
    /\ file = None
    /\ config = default_config
    /\ output = None

\* What the caller of get_personalized_suggestions holds afterwards
suggestions_output(stats, suggestions) ==
    [format |-> "suggestions", stats |-> stats, suggestions |-> suggestions]

\* tracker.get_personalized_suggestions(), with the statistics it starts from
GetSuggestions ==
    /\ output = None
    /\ output' = Some(suggestions_output(get_progress_stats(learning_units),
                                         get_personalized_suggestions(learning_units)))
    /\ UNCHANGED <<tracker_vars, now, ops, returned, file, config>>

NextSuggest == GetSuggestions

SpecSuggest == InitSuggest /\ [][NextSuggest]_vars

\* The last call was get_personalized_suggestions
Suggested == is_some(output) /\ unwrap(output).format = "suggestions"

\* The overall-progress messages, by tier: below 20, below 50, below 80, the rest
ProgressMessages ==
    << "Just getting started: begin with the basic syntax.",
       "Good progress: go deeper into the ownership system.",
       "The basics are in place: try some real projects.",
       "Most of the content is done: contribute to a project." >>

ProgressTier(overall_progress) ==
    IF FLt(overall_progress, F(20)) THEN 1
    ELSE IF FLt(overall_progress, F(50)) THEN 2
    ELSE IF FLt(overall_progress, F(80)) THEN 3
    ELSE 4

ReviewMessage == "Review the earlier content."

ExcellentMessage == "Excellent scores: try more advanced content."

MoreTimeMessage == "Spend more time learning."

EncouragementMessage == "You have invested a lot of time: keep going."

\* The tips, in the order of the stages they are for
StageTips ==
    << "Focus on basic syntax and the development environment.",
       "Ownership is the core of Rust: practise it.",
       "Learn to build larger programs with the advanced features.",
       "Get to know the ecosystem and its common libraries.",
       "Apply what you learned in real projects." >>

StageIndex(stage) == CHOOSE i \in DOMAIN all_stages : all_stages[i] = stage

\* The score message the statistics call for, if any
ExpectedScoreMessages(stats) ==
    IF ~is_some(stats.average_score) THEN <<>>
    ELSE IF FLt(unwrap(stats.average_score), F(70)) THEN <<ReviewMessage>>
    ELSE IF FGe(unwrap(stats.average_score), F(90)) THEN <<ExcellentMessage>>
    ELSE <<>>

\* C22: get_personalized_suggestions returns between 2 and 4 messages in this
\* order: first the one overall-progress message of the tier of overall_progress
\* (<20, <50, <80, otherwise); then at most one score message, present only when
\* average_score exists and is <70 or >=90; then at most one hours message;
\* last the one tip for current_stage.
C22_SuggestionsOrder ==
    Suggested =>
       LET stats       == unwrap(output).stats
           suggestions == unwrap(output).suggestions
           n           == Len(suggestions)
           scores      == ExpectedScoreMessages(stats)
           middle      == SubSeq(suggestions, 2, n - 1)
           hours       == SubSeq(middle, Len(scores) + 1, Len(middle))
       IN  /\ 2 <= n /\ n <= 4
           /\ suggestions[1] = ProgressMessages[ProgressTier(stats.overall_progress)]
           /\ suggestions[n] = StageTips[StageIndex(stats.current_stage)]
           /\ Len(middle) >= Len(scores)
           /\ SubSeq(middle, 1, Len(scores)) = scores
           /\ Len(hours) <= 1
           /\ \A k \in DOMAIN hours :
                 hours[k] \in {MoreTimeMessage, EncouragementMessage}

\* Four messages: a progress message, a score message, an hours message, a tip
C22_Witness ==
    /\ Suggested
    /\ Len(unwrap(output).suggestions) = 4
    /\ unwrap(output).suggestions[2] = ExcellentMessage
    /\ unwrap(output).suggestions[3] = EncouragementMessage
    /\ unwrap(output).suggestions[1] = ProgressMessages[4]
    /\ unwrap(output).suggestions[4] = StageTips[5]

\* C23: the suggestions contain the increase-study-time message if and only if
\* the completed estimated time is less than 10 hours (fewer than 600 minutes),
\* and contain the encouragement message if and only if the completed estimated
\* time is more than 100 hours (more than 6000 minutes).
C23_HoursBands ==
    Suggested =>
       /\ InSeq(MoreTimeMessage, unwrap(output).suggestions)
             <=> unwrap(output).stats.completed_time_minutes < 600
       /\ InSeq(EncouragementMessage, unwrap(output).suggestions)
             <=> unwrap(output).stats.completed_time_minutes > 6000

\* The last call rendered the text report
TextRendered == is_some(output) /\ unwrap(output).format = "text"

\* A bar of W cells of which k are filled, with the percentage behind it
BarOf(k, W, percentage) ==
    "[" \o repeat("#", k) \o repeat(".", W - k) \o "] " \o fmt1(percentage) \o "%"

\* x rounded to the nearest integer, halves away from zero (f32::round), x >= 0
RoundNearest(x) == (2 * x.n + x.d) \div (2 * x.d)

\* What follows the bar of a stage on its line: the first unit of the stage
StageBarSuffix(stage) ==
    IF units_of_stage(learning_units, stage) = <<>> THEN ""
    ELSE unit_status_line(units_of_stage(learning_units, stage)[1])

\* C24: the text progress bar has round(pct/100 x W) filled cells (nearest
\* integer), for the overall bar (W = 40) and for each per-stage bar (W = 30).
C24_FilledCellsAreRounded ==
    TextRendered =>
       LET stats == get_progress_stats(learning_units)
       IN  /\ config.show_progress_bars =>
                 InSeq(BarOf(RoundNearest(FMul(FDiv(stats.overall_progress, F(100)), F(40))),
                             40, stats.overall_progress),
                       unwrap(output).lines)
           /\ config.show_stage_breakdown =>
                 \A stage \in StageSet :
                    InSeq(BarOf(RoundNearest(FMul(FDiv(stage_progress_get(stats, stage),
                                                       F(100)), F(30))),
                                30, stage_progress_get(stats, stage))
                             \o StageBarSuffix(stage),
                          unwrap(output).lines)

\* The lines of the report that list a recommended unit
RecommendedUnitLines ==
    {k \in DOMAIN unwrap(output).lines :
        \E r \in {get_learning_path_recommendation(learning_units)} :
           \E i \in DOMAIN r.next_units :
              unwrap(output).lines[k] =
                 "  " \o ToString(i) \o ". " \o r.next_units[i].name
                      \o " (" \o unit_type_name(r.next_units[i].unit_type) \o " - "
                      \o ToString(r.next_units[i].estimated_time_minutes) \o " minutes)"}

\* C25: for every tracker and every DashboardConfig, the recommendations
\* section of the text report lists at most config.max_recommendations units.
C25_AtMostMaxRecommendationsListed ==
    TextRendered =>
       Cardinality(RecommendedUnitLines) <= config.max_recommendations

\* C26: for every tracker reachable by add_unit, start, complete and skip, the
\* recommendation is empty (and its rationale announces that every unit is
\* completed) only when no unit anywhere in the tracker is NotStarted or
\* InProgress: whenever some unit is still NotStarted or InProgress, next_units
\* is not empty.
C26_EmptyRecommendationMeansNothingOpen ==
    Recommended =>
       /\ (\E u \in Range(learning_units) : Open(u.status))
             => unwrap(output).recommendation.next_units # <<>>
       /\ unwrap(output).recommendation.reasoning
             = "Congratulations! You have completed every unit."
             => \A u \in Range(learning_units) : ~Open(u.status)

\* C27: over any sequence of start, complete and skip operations on a fixed set
\* of units (no add_unit), current_stage never moves to an earlier stage in
\* curriculum order: each operation leaves it the same or moves it to a later
\* stage.
C27_CurrentStageNeverMovesBack ==
    [][Len(learning_units') = Len(learning_units)
          => StageIndex(current_stage_of(learning_units'))
                >= StageIndex(current_stage_of(learning_units))]_vars

----------------------------------------------------------------------------
(* The time a unit took: LearningUnit::actual_time_minutes                   *)

\* `i as u32` for an i64 of small magnitude: the low 32 bits of the two's
\* complement, written as two 16-bit halves (2^16 = 65536)
as_u32(i) ==
    IF i >= 0
    THEN [hi |-> (i \div 65536) % 65536, lo |-> i % 65536]
    ELSE [hi |-> 65535 - ((((-i) - 1) \div 65536) % 65536),
          lo |-> 65535 - (((-i) - 1) % 65536)]

\* LearningUnit::actual_time_minutes: (end - start).num_minutes() as u32, one
\* clock unit being one day of 1440 minutes
actual_time_minutes(unit) ==
    IF is_some(unit.started_at) /\ is_some(unit.completed_at)
    THEN Some(as_u32(1440 * (unwrap(unit.completed_at) - unwrap(unit.started_at))))
    ELSE None

\* C28: for every unit and every sequence of start, complete and skip calls on
\* it, whenever actual_time_minutes returns a value the unit's started_at is not
\* later than its completed_at and the value is the non-negative number of whole
\* minutes between them (a negative duration is never turned into a wrapped
\* unsigned number).
C28_ActualTimeIsNeverNegative ==
    \A unit \in Range(learning_units) :
       is_some(actual_time_minutes(unit))
          => /\ unwrap(unit.started_at) <= unwrap(unit.completed_at)
             /\ unwrap(actual_time_minutes(unit)) =
                   [hi |-> 0,
                    lo |-> 1440 * (unwrap(unit.completed_at) - unwrap(unit.started_at))]

\* C29: after any sequence of tracker operations (add_unit, unit start, complete
\* and skip through get_unit_mut, check_achievements), the tracker's
\* last_updated is not earlier than any unit's started_at or completed_at nor
\* any achievement's unlocked_at, so the last-updated time of the report header
\* covers the most recent change.
C29_LastUpdatedCoversEveryChange ==
    /\ \A unit \in Range(learning_units) :
          /\ is_some(unit.started_at) => unwrap(unit.started_at) <= last_updated
          /\ is_some(unit.completed_at) => unwrap(unit.completed_at) <= last_updated
    /\ \A a \in Range(achievements) :
          is_some(a.unlocked_at) => unwrap(a.unlocked_at) <= last_updated

\* filled_width of create_progress_bar for a bar of W cells
FilledCells(percentage, W) == as_usize(FMul(FDiv(percentage, F(100)), F(W)))

\* C30: every progress bar of the text report has exactly W cells, filled plus
\* empty (W = 40 for the overall bar, 30 for each stage bar): overall_progress
\* and every per-stage progress stay within [0,100], the completed weight never
\* exceeds the total weight in f32, so the filled count is at most W and the
\* empty count W - filled never goes below zero.
C30_EveryBarHasExactlyWCells ==
    TextRendered =>
       LET stats == get_progress_stats(learning_units)
       IN  /\ FGe(stats.overall_progress, F(0))
           /\ FLe(stats.overall_progress, F(100))
           /\ sum_weight_f32(completed_of(learning_units)) <= sum_weight_f32(learning_units)
           /\ FilledCells(stats.overall_progress, 40) \in 0..40
           /\ config.show_progress_bars =>
                 \E k \in 0..40 :
                    InSeq(BarOf(k, 40, stats.overall_progress), unwrap(output).lines)
           /\ \A stage \in StageSet :
                 /\ FGe(stage_progress_get(stats, stage), F(0))
                 /\ FLe(stage_progress_get(stats, stage), F(100))
                 /\ FilledCells(stage_progress_get(stats, stage), 30) \in 0..30
                 /\ config.show_stage_breakdown =>
                       \E k \in 0..30 :
                          InSeq(BarOf(k, 30, stage_progress_get(stats, stage))
                                   \o StageBarSuffix(stage),
                                unwrap(output).lines)

\* A rendered report with both sections of a tracker whose units are all
\* completed: the overall bar has 40 filled cells and no empty one, and the
\* bar of the stage has 30 filled cells and no empty one.
C30_Witness ==
    /\ TextRendered
    /\ config.show_progress_bars
    /\ config.show_stage_breakdown
    /\ learning_units # <<>>
    /\ LET stats == get_progress_stats(learning_units)
       IN  /\ FilledCells(stats.overall_progress, 40) = 40
           /\ InSeq(BarOf(40, 40, stats.overall_progress), unwrap(output).lines)
           /\ \E stage \in StageSet :
                 /\ units_of_stage(learning_units, stage) # <<>>
                 /\ FilledCells(stage_progress_get(stats, stage), 30) = 30
                 /\ InSeq(BarOf(30, 30, stage_progress_get(stats, stage))
                             \o StageBarSuffix(stage),
                          unwrap(output).lines)

====
